---- MODULE Spec2Model ----
(***************************************************************************)
(* Model of the recommendation backend of lit-finder:                      *)
(*   - CircuitBreaker (backend/app/services/recommendation_service.py)     *)
(*   - RecommendationEngine.get_recommendations and its stages             *)
(*     (backend/app/services/recommendation_engine.py) behind the cached   *)
(*     decorator (backend/app/services/cache.py)                           *)
(*   - RecommendationService.get_recommendations                           *)
(* The specifications share the variables: BreakerSpec drives one         *)
(* CircuitBreaker with concurrent callers and the engine's own breaker     *)
(* around one provider call, Spec drives the engine and the service,       *)
(* AggSpec applies _deduplicate_items and _ensure_diversity to item lists, *)
(* StageSpec calls the STANDARD and the COMPREHENSIVE stage on their own.  *)
(***************************************************************************)
EXTENDS Integers, Sequences, FiniteSets, TLC

VARIABLES
    \* ---- CircuitBreaker object (recommendation_service.py:40-47)
    state,              \* self.state
    failure_count,      \* self.failure_count
    last_failure_time,  \* self.last_failure_time: {} is None, {t} is a time
    failure_threshold,  \* self.failure_threshold
    fallback_function,  \* self.fallback_function: "None" or "set"
    now,                \* datetime.now(), in ticks
    callpc,             \* per caller: "idle" or "awaiting" (suspended in wait_for)
    ret,                \* per caller: what its last call gave back
    event,              \* the last step on a breaker: <<kind, caller, state found>>
    consec,             \* failures handled since the last success or reset
    \* ---- cache.py module state, the engine singleton, the service singleton
    in_memory_cache,    \* cache.py in_memory_cache: key -> value
    circuit_breakers,   \* engine._circuit_breakers: service -> [failures, open]
    instance_breakers,  \* per client: _circuit_breakers of the engine the router
                        \* made for its request
    progressive_handler,\* engine.progressive_handler (an attribute of the instance)
    service_cache,      \* service.cache.cache (RecommendationCache): tier -> value
    \* ---- one entry per request task
    rpc,                \* "idle", "awaiting" (suspended in the provider call), "done"
    req,                \* the arguments of the call
    basic_results,      \* the local basic_results of get_recommendations
    result,             \* the value returned to the caller
    raised,             \* the exception that reached the caller, "none" if none
    invoked,            \* the providers this request has called
    stages,             \* the stages this request has run, in order
    events,             \* what the task's progressive handler has queued
    ncalls,             \* how many calls each client has made
    provider_outcome,   \* what the search provider did for the request
    \* ---- one call of _deduplicate_items or _ensure_diversity
    items,              \* the argument
    op,                 \* "none", "deduplicate" or "diversify"
    deduplicated,       \* _deduplicate_items: the list returned
    removed_count,      \* _deduplicate_items: the count returned
    diverse_items,      \* _ensure_diversity: the list returned
    caps,               \* settings.MAX_ITEMS_PER_AUTHOR, _PER_GENRE, MAX_RECOMMENDATIONS
    \* ---- one call of a stage method
    stage_breakers,     \* engine._circuit_breakers of the stages' services
    stage_pc,           \* "idle", "standard" or "comprehensive" (in the gather)
    stage_timeout,      \* the timeout argument of the stage running
    stage_in,           \* the dictionary passed to the stage
    stage_out,          \* the dictionary the stage returned
    gateways,           \* what each provider of the stage did
    \* ---- one call of _quick_semantic_scoring on one item
    score_item,         \* the item passed
    search_term,        \* the search term passed
    score_op,           \* "none" or "scored"
    scored_items,       \* the list returned
    \* ---- a RecommendationCache (recommendation_service.py:120-220)
    cache,              \* self.cache: key -> [data, expiration]
    ttl_seconds,        \* self.ttl_seconds
    clock,              \* datetime.now() as the cache reads it, in seconds
    cache_op,           \* the last call and what it returned
    cache_steps,        \* how many calls have been made
    \* ---- the persistence methods of the engine and the router's endpoints
    supabase_enabled,   \* settings.SUPABASE_ENABLED
    store_calls,        \* how many calls self.supabase has received
    persist_op,         \* the last call of an engine method and what it returned
    http                \* the last request of an endpoint and its answer

breakerVars == <<state, failure_count, last_failure_time, failure_threshold,
                 fallback_function, now, callpc, ret, event, consec>>

engineVars == <<in_memory_cache, circuit_breakers, instance_breakers,
                progressive_handler,
                service_cache,
                rpc, req, basic_results, result, raised, invoked, stages, events,
                ncalls, provider_outcome>>

aggVars == <<items, op, deduplicated, removed_count, diverse_items, caps>>

stageVars == <<stage_breakers, stage_pc, stage_timeout, stage_in, stage_out,
               gateways>>

scoreVars == <<score_item, search_term, score_op, scored_items>>

cacheVars == <<cache, ttl_seconds, clock, cache_op, cache_steps>>

apiVars == <<supabase_enabled, store_calls, persist_op, http>>

vars == <<breakerVars, engineVars, aggVars, stageVars, scoreVars, cacheVars,
          apiVars>>

-----------------------------------------------------------------------------
\* Bounds of the model

MaxThreshold == 3
MaxFailures == 5
MaxTime == 4
MaxCalls == 2
RecoveryTimeout == 2

Callers == {"c1", "c2"}

-----------------------------------------------------------------------------
\* CircuitState (recommendation_service.py:11-14)

CLOSED == "CLOSED"
OPEN == "OPEN"
HALF_OPEN == "HALF_OPEN"
CircuitState == {CLOSED, OPEN, HALF_OPEN}

\* CircuitBreaker.__init__ (recommendation_service.py:40-47); the threshold and
\* the presence of a fallback are constructor arguments.
BreakerInit ==
    /\ state = CLOSED
    /\ failure_count = 0
    /\ last_failure_time = {}
    /\ failure_threshold \in 1..MaxThreshold
    /\ fallback_function \in {"None", "set"}
    /\ now = 0
    /\ callpc = [c \in Callers |-> "idle"]
    /\ ret = [c \in Callers |-> "none"]
    /\ event = <<"init", "-", "-">>
    /\ consec = 0

\* line 63: self.last_failure_time and
\*          datetime.now() - self.last_failure_time > timedelta(seconds=recovery_timeout)
RecoveryElapsed ==
    \E t \in last_failure_time : now - t > RecoveryTimeout

\* lines 68-70 and 110-113: the fallback's value, or the raised Exception
FallbackOrRaise ==
    IF fallback_function = "set" THEN "fallback" ELSE "raised"

\* line 100: the test that opens a CLOSED circuit
ThresholdReachedStrict(fc) == fc > failure_threshold
ThresholdReachedEarly(fc) == fc >= failure_threshold - 1
ThresholdReached(fc) == fc >= failure_threshold

\* lines 100-107: the state _handle_failure leaves, given the state it finds
\* and the incremented count
StateAfterFailureEager(st, fc) == OPEN
StateAfterFailureSticky(st, fc) ==
    IF st = CLOSED /\ ThresholdReached(fc) THEN OPEN ELSE st
StateAfterFailure(st, fc) ==
    IF st = CLOSED /\ ThresholdReached(fc) THEN OPEN
    ELSE IF st = HALF_OPEN THEN OPEN
    ELSE st

\* line 96: self.failure_count += 1
CountAfterFailureSame(fc) == fc
CountAfterFailure(fc) == fc + 1

\* lines 80-82: the count a successful call leaves; reset() only in HALF_OPEN
CountAfterSuccessCleared(st, fc) == 0
CountAfterSuccess(st, fc) == IF st = HALF_OPEN THEN 0 ELSE fc

\* lines 61-70: which way call() goes on entry: "through" to the provider
\* (possibly via HALF_OPEN) or "short" to the fallback
EntryRouteAlwaysThrough(st, elapsed) == "through"
EntryRoute(st, elapsed) ==
    IF st = OPEN /\ ~elapsed THEN "short" ELSE "through"

\* lines 61-77: call() up to its suspension in asyncio.wait_for
CallEnter(c) ==
    /\ callpc[c] = "idle"
    /\ failure_count + Cardinality({d \in Callers : callpc[d] = "awaiting"}) < MaxFailures
    /\ IF EntryRoute(state, RecoveryElapsed) = "short"
       THEN /\ ret' = [ret EXCEPT ![c] = FallbackOrRaise]
            /\ event' = <<"short", c, state>>
            /\ UNCHANGED <<state, callpc>>
       ELSE /\ state' = IF state = OPEN THEN HALF_OPEN ELSE state
            /\ callpc' = [callpc EXCEPT ![c] = "awaiting"]
            /\ ret' = [ret EXCEPT ![c] = "pending"]
            /\ event' = <<"through", c, state>>
    /\ UNCHANGED <<failure_count, last_failure_time, failure_threshold,
                   fallback_function, now, consec>>
    /\ UNCHANGED <<engineVars, aggVars, stageVars, scoreVars, cacheVars, apiVars>>

\* lines 74-84: the provider answered in time
CallSucceed(c) ==
    /\ callpc[c] = "awaiting"
    /\ state' = IF state = HALF_OPEN THEN CLOSED ELSE state
    /\ failure_count' = CountAfterSuccess(state, failure_count)
    /\ last_failure_time' = IF state = HALF_OPEN THEN {} ELSE last_failure_time
    /\ callpc' = [callpc EXCEPT ![c] = "idle"]
    /\ ret' = [ret EXCEPT ![c] = "result"]
    /\ event' = <<"success", c, state>>
    /\ consec' = 0
    /\ UNCHANGED <<failure_threshold, fallback_function, now>>
    /\ UNCHANGED <<engineVars, aggVars, stageVars, scoreVars, cacheVars, apiVars>>

\* lines 86-92 and _handle_failure (94-113): asyncio.TimeoutError or any Exception
CallFail(c) ==
    /\ callpc[c] = "awaiting"
    /\ \E kind \in {"timeout", "exception"} :
          event' = <<kind, c, state>>
    /\ failure_count' = CountAfterFailure(failure_count)
    /\ last_failure_time' = {now}
    /\ state' = StateAfterFailure(state, failure_count')
    /\ callpc' = [callpc EXCEPT ![c] = "idle"]
    /\ ret' = [ret EXCEPT ![c] = FallbackOrRaise]
    /\ consec' = IF consec < MaxFailures THEN consec + 1 ELSE consec
    /\ UNCHANGED <<failure_threshold, fallback_function, now>>
    /\ UNCHANGED <<engineVars, aggVars, stageVars, scoreVars, cacheVars, apiVars>>

\* CircuitBreaker.reset (115-119), called from outside call()
Reset ==
    /\ state' = CLOSED
    /\ failure_count' = 0
    /\ last_failure_time' = {}
    /\ event' = <<"reset", "-", state>>
    /\ consec' = 0
    /\ UNCHANGED <<failure_threshold, fallback_function, now, callpc, ret>>
    /\ UNCHANGED <<engineVars, aggVars, stageVars, scoreVars, cacheVars, apiVars>>

\* time passes
Tick ==
    /\ now < MaxTime
    /\ now' = now + 1
    /\ event' = <<"tick", "-", state>>
    /\ UNCHANGED <<state, failure_count, last_failure_time, failure_threshold,
                   fallback_function, callpc, ret, consec>>
    /\ UNCHANGED <<engineVars, aggVars, stageVars, scoreVars, cacheVars, apiVars>>


-----------------------------------------------------------------------------
\* The engine, the cached decorator and the service

Requests == {"r1", "r2"}
Tiers == {"fast", "standard", "comprehensive", "premium"}
\* what perplexity_service.get_initial_recommendations does under the 3 s
\* wait_for of line 159: books, no books, an exception, a timeout, or a payload
\* that is not a list of dictionaries
ProviderOutcomes == {"ok", "empty", "exception", "timeout", "malformed"}

\* A response dictionary, reduced to the fields the stages read and write.
\* recs and top_book name where the books came from; timeout is
\* metadata.get("timeout"), which no dictionary built here sets, and
\* literary_analysis is the key of that name, which none of them has.
Absent ==
    [kind |-> "absent", recs |-> "none", top_book |-> "none",
     tier |-> "none", error |-> "none", timeout |-> FALSE,
     literary_analysis |-> "none"]

\* recommendation_engine.py:194-205
BasicResponse(src) ==
    [kind |-> "basic", recs |-> src, top_book |-> src,
     tier |-> "fast", error |-> "none", timeout |-> FALSE,
     literary_analysis |-> "none"]

\* recommendation_engine.py:211-220
BasicErrorResponse ==
    [kind |-> "basic", recs |-> "empty", top_book |-> "None",
     tier |-> "fast", error |-> "AttributeError", timeout |-> FALSE,
     literary_analysis |-> "none"]

\* recommendation_engine.py:118-129
ErrorResponse(e) ==
    [kind |-> "error_response", recs |-> "empty", top_book |-> "None",
     tier |-> "none", error |-> e, timeout |-> FALSE,
     literary_analysis |-> "none"]

\* recommendation_service.py:326-330
ServiceErrorResponse(e) ==
    [kind |-> "service_error", recs |-> "empty", top_book |-> "none",
     tier |-> "none", error |-> e, timeout |-> FALSE,
     literary_analysis |-> "none"]

\* The arguments of one call
Calls ==
    [tier : Tiers, progressive : BOOLEAN, handler : BOOLEAN,
     via : {"engine", "service", "router"}]

\* cache.py:56-87 generate_cache_key: the prefix and the arguments (the engine,
\* the user and the search term are the same in every call of the model)
\* api/routers/recommendations.py:22-24, 88, 161: the router's endpoints get a
\* new RecommendationEngine for each request; main.py:19-20 and the endpoint
\* of line 263 use the one made at import
EngineOf(call) == IF call.via = "router" THEN "fresh" ELSE "singleton"

\* The key has repr(self) in it (cache.py:61-70). The engines the router makes
\* have one slot here: a later one finds the entry when it has the address of
\* the one that stored it.
EngineKey(call) ==
    [prefix |-> "recommendation_engine", tier |-> call.tier,
     progressive |-> call.progressive, self |-> EngineOf(call)]
BasicKey ==
    [prefix |-> "recommendations_basic", tier |-> "-", progressive |-> FALSE,
     self |-> "singleton"]
BasicKeyOf(call) == [BasicKey EXCEPT !.self = EngineOf(call)]
CacheKeys ==
    {BasicKeyOf(c) : c \in Calls} \cup
    [prefix : {"recommendation_engine"}, tier : Tiers, progressive : BOOLEAN,
     self : {"singleton", "fresh"}]

CacheNames == {"service", "engine", "basic"}

\* the two clients: r1 calls the engine itself, r2 calls the service
Via(r) == IF r = "r1" THEN "engine" ELSE "service"

\* r1's calls of the engine are all direct or all through a router endpoint
Vias(r) == IF r = "r1" THEN {"engine", "router"} ELSE {"service"}

\* a RecommendationEngine has no _circuit_breakers until a breaker is checked
\* (recommendation_engine.py:616-627)
NewBreaker == [failures |-> 0, open |-> FALSE]

EngineInit ==
    /\ in_memory_cache = [k \in CacheKeys |-> Absent]
    /\ circuit_breakers = NewBreaker
    /\ instance_breakers = [r \in Requests |-> NewBreaker]
    /\ progressive_handler = "unset"
    /\ service_cache = [t \in Tiers |-> Absent]
    /\ rpc = [r \in Requests |-> "idle"]
    /\ req \in [Requests -> Calls]
    /\ \A r \in Requests : req[r].handler => req[r].progressive
    /\ \A r \in Requests : req[r].via \in Vias(r)
    /\ \A r \in Requests : req[r].via = "router" => ~req[r].handler
    /\ basic_results = [r \in Requests |-> Absent]
    /\ result = [r \in Requests |-> Absent]
    /\ raised = [r \in Requests |-> "none"]
    /\ invoked = [r \in Requests |-> {}]
    /\ stages = [r \in Requests |-> <<>>]
    /\ events = [r \in Requests |-> <<>>]
    /\ ncalls = [r \in Requests |-> 0]
    /\ provider_outcome = [r \in Requests |-> "none"]

\* recommendation_engine.py:62-66: the dictionary literal is looked up at once,
\* so timeouts is the float of the tier, not the dictionary
Timeouts(tier) ==
    [type |-> "float",
     value |-> CASE tier = "fast" -> 5
                 [] tier = "comprehensive" -> 40
                 [] OTHER -> 15]

\* timeouts["standard"] (line 88), timeouts["comprehensive"] (line 105)
Subscriptable(v) == v.type = "dict"

\* line 69: getattr(asyncio.current_task(), "progressive_handler", None)
TaskHandler(r, call) == IF call.handler THEN r ELSE "None"

\* api/routers/recommendations.py:186-206: event_generator sets the handler on
\* its own task and runs get_recommendations in a new task, which has no such
\* attribute
StreamingCall(tier) ==
    [tier |-> tier, progressive |-> TRUE, handler |-> FALSE, via |-> "router"]

\* api/routers/recommendations.py:209-226: the loop of event_generator ends
\* when it takes an event with final = True from its queue
StreamEnds(queue) == \E i \in 1..Len(queue) : queue[i].final

\* lines 81-82, 132-133: await self.progressive_handler(data, final=...);
\* the handler queues the event on the queue of the task that owns it
Send(ev, r, prog, h, data, final) ==
    IF prog /\ h \in Requests
    THEN [ev EXCEPT ![h] = Append(@, [data |-> data, final |-> final, from |-> r])]
    ELSE ev

\* line 115: except Exception
EngineCatchesNothing(e) == FALSE
EngineCatches(e) == TRUE

\* recommendation_service.py:322: except Exception
ServiceCatches(e) == TRUE

\* line 75: the test that returns the FAST result
IsFastTierNever(tier) == FALSE
IsFastTier(tier) == tier = "fast"

\* recommendation_engine.py:173-220: _get_basic_recommendations from the book
\* items on: mock books when there are none, then deduplicate, score, diversify
BasicFrom(outcome) ==
    CASE outcome = "ok" -> BasicResponse("api")
      [] outcome = "malformed" -> BasicErrorResponse
      [] OTHER -> BasicResponse("mock")

\* recommendation_engine.py:644-674 _record_circuit_breaker_failure
RecordFailure(b) ==
    [failures |-> b.failures + 1, open |-> (b.open \/ b.failures + 1 >= 3)]

\* recommendation_engine.py:607-642 _check_circuit_breaker: the breaker it
\* leaves and the answer it gives; elapsed is datetime.now() > open_until
CheckedBreaker(b, elapsed) ==
    IF b.open /\ elapsed THEN [failures |-> 0, open |-> FALSE] ELSE b
CircuitOpenNever(b, elapsed) == FALSE
CircuitOpen(b, elapsed) == b.open /\ ~elapsed

\* recommendation_engine.py:75-135: get_recommendations once basic_results is
\* there. The outcome is the value returned or the exception left uncaught, the
\* events sent and the stages started.
\*   tier fast: return basic_results (75-78)
\*   else: the progressive send (81-82), then
\*     standard/comprehensive: timeouts["standard"] raises TypeError (88)
\*     any other tier: return standard_results raises UnboundLocalError (113)
\*   the handler of 115-135 builds error_response, sends it, returns it
AfterFast(r, call, h, basic, ev) ==
    IF IsFastTier(call.tier)
    THEN [value |-> basic, exc |-> "none", ev |-> ev, stages |-> <<"FAST">>,
          suspended |-> FALSE]
    ELSE LET ev1 == Send(ev, r, call.progressive, h, basic, FALSE)
             e == IF call.tier \in {"standard", "comprehensive"}
                  THEN IF Subscriptable(Timeouts(call.tier)) THEN "none"
                       ELSE "TypeError"
                  ELSE "UnboundLocalError"
         IN  IF e = "none"
             THEN [value |-> Absent, exc |-> "none", ev |-> ev1,
                   stages |-> <<"FAST", "STANDARD">>, suspended |-> TRUE]
             ELSE IF EngineCatches(e)
             THEN [value |-> ErrorResponse(e), exc |-> "none",
                   ev |-> Send(ev1, r, call.progressive, h, ErrorResponse(e), TRUE),
                   stages |-> <<"FAST">>, suspended |-> FALSE]
             ELSE [value |-> Absent, exc |-> e, ev |-> ev1,
                   stages |-> <<"FAST">>, suspended |-> FALSE]

\* recommendation_service.py:302-330: what the service makes of the engine's
\* outcome
ServiceReturn(call, out) ==
    IF call.via = "service" /\ out.exc # "none" /\ ServiceCatches(out.exc)
    THEN [out EXCEPT !.value = ServiceErrorResponse(out.exc), !.exc = "none"]
    ELSE out

\* The request returns to its caller: the cached wrapper stores the value under
\* the call's key (cache.py:169-174), the service stores it when the request
\* was not progressive (recommendation_service.py:314-315). mem and svc are
\* the two caches as the request's earlier steps left them.
Return(r, call, out, mem, svc) ==
    LET final == ServiceReturn(call, out)
        returns == ~out.suspended /\ out.exc = "none"
    IN  /\ in_memory_cache' =
              IF returns THEN [mem EXCEPT ![EngineKey(call)] = out.value]
              ELSE mem
        /\ service_cache' =
              IF call.via = "service" /\ returns /\ ~call.progressive
              THEN [svc EXCEPT ![call.tier] = out.value]
              ELSE svc
        /\ result' = [result EXCEPT ![r] = final.value]
        /\ raised' = [raised EXCEPT ![r] = final.exc]
        /\ events' = final.ev
        /\ stages' = [stages EXCEPT ![r] = final.stages]
        /\ rpc' = [rpc EXCEPT ![r] = IF final.suspended THEN "standard" ELSE "done"]

\* A caller gets a value straight from a cache, or from a service without an
\* engine: no stage runs, the engine's attributes stay as they are. A handler
\* the engine still holds for the task that used this entry before is a
\* callback to a queue nobody reads any more.
ReturnAtOnce(r, value) ==
    /\ result' = [result EXCEPT ![r] = value]
    /\ raised' = [raised EXCEPT ![r] = "none"]
    /\ stages' = [stages EXCEPT ![r] = <<>>]
    /\ basic_results' = [basic_results EXCEPT ![r] = Absent]
    /\ invoked' = [invoked EXCEPT ![r] = {}]
    /\ events' = [events EXCEPT ![r] = <<>>]
    /\ rpc' = [rpc EXCEPT ![r] = "done"]
    /\ progressive_handler' =
          IF progressive_handler = r THEN "stale" ELSE progressive_handler
    /\ UNCHANGED circuit_breakers

\* the breaker is written back to the engine the call runs on
KeepBreaker(r, call, b) ==
    /\ circuit_breakers' = IF call.via = "router" THEN circuit_breakers ELSE b
    /\ instance_breakers' =
          IF call.via = "router" THEN [instance_breakers EXCEPT ![r] = b]
          ELSE instance_breakers

\* self.progressive_handler of the engine request r runs on
HandlerNow(r) == IF req[r].via = "router" THEN "None" ELSE progressive_handler

\* A request starts in a new task and runs to its first suspension or to its
\* end. expired names the caches whose entry for this call has outlived its
\* ttl when it is read: a TTLCache (cache.py:49) no longer holds such an entry,
\* a RecommendationCache deletes it on the read (recommendation_service.py:172).
\*   service: the cache lookup of recommendation_service.py:296-300
\*   wrapper: the lookup of cache.py:161-166
\*   engine:  lines 54-72, then _get_basic_recommendations behind its own
\*            wrapper: a cached FAST result, or the breaker check of 153 and
\*            either the provider call (suspends) or the mock books
Call(r, call, expired, elapsed) ==
    /\ rpc[r] \in {"idle", "done"}
    /\ call = req[r]
    /\ ncalls[r] < MaxCalls
    /\ ncalls' = [ncalls EXCEPT ![r] = @ + 1]
    /\ provider_outcome' = [provider_outcome EXCEPT ![r] = "none"]
    /\ UNCHANGED req
    \* only an entry that is there can have expired, only an open breaker's
    \* period can have passed
    /\ "service" \in expired =>
          call.via = "service" /\ service_cache[call.tier] # Absent
    /\ "engine" \in expired => in_memory_cache[EngineKey(call)] # Absent
    /\ "basic" \in expired => in_memory_cache[BasicKeyOf(call)] # Absent
    /\ elapsed => (call.via # "router" /\ circuit_breakers.open)
    /\ LET svc == IF call.via = "service"
                  THEN [service_cache EXCEPT ![call.tier] = Absent]
                  ELSE service_cache
           c1 == IF "engine" \in expired
                 THEN [in_memory_cache EXCEPT ![EngineKey(call)] = Absent]
                 ELSE in_memory_cache
           c2 == IF "basic" \in expired
                 THEN [c1 EXCEPT ![BasicKeyOf(call)] = Absent]
                 ELSE c1
           own == IF call.via = "router" THEN NewBreaker ELSE circuit_breakers
           ev == [events EXCEPT ![r] = <<>>]
       IN
       IF call.via = "service" /\ service_cache[call.tier] # Absent
          /\ "service" \notin expired
       THEN /\ ReturnAtOnce(r, service_cache[call.tier])
            /\ UNCHANGED <<service_cache, in_memory_cache, instance_breakers>>
       ELSE IF c1[EngineKey(call)] # Absent
       THEN /\ ReturnAtOnce(r, c1[EngineKey(call)])
            /\ instance_breakers' =
                  IF call.via = "router"
                  THEN [instance_breakers EXCEPT ![r] = NewBreaker]
                  ELSE instance_breakers
            /\ in_memory_cache' = c1
            /\ service_cache' =
                  IF call.via = "service" /\ ~call.progressive
                  THEN [svc EXCEPT ![call.tier] = c1[EngineKey(call)]]
                  ELSE svc
       ELSE LET h == TaskHandler(r, call)
                b == CheckedBreaker(own, elapsed)
            IN  /\ progressive_handler' =
                      IF call.via = "router" THEN progressive_handler ELSE h
                /\ IF c2[BasicKeyOf(call)] # Absent
                   THEN /\ basic_results' =
                              [basic_results EXCEPT ![r] = c2[BasicKeyOf(call)]]
                        /\ invoked' = [invoked EXCEPT ![r] = {}]
                        /\ KeepBreaker(r, call, own)
                        /\ Return(r, call,
                                  AfterFast(r, call, h, c2[BasicKeyOf(call)], ev),
                                  c2, svc)
                   ELSE IF CircuitOpen(own, elapsed)
                   THEN LET basic == BasicFrom("empty")
                        IN  /\ basic_results' = [basic_results EXCEPT ![r] = basic]
                            /\ invoked' = [invoked EXCEPT ![r] = {}]
                            /\ KeepBreaker(r, call, b)
                            /\ Return(r, call, AfterFast(r, call, h, basic, ev),
                                      [c2 EXCEPT ![BasicKeyOf(call)] = basic], svc)
                   ELSE /\ KeepBreaker(r, call, b)
                        /\ rpc' = [rpc EXCEPT ![r] = "awaiting"]
                        /\ invoked' = [invoked EXCEPT ![r] = {"perplexity_api"}]
                        /\ basic_results' = [basic_results EXCEPT ![r] = Absent]
                        /\ result' = [result EXCEPT ![r] = Absent]
                        /\ raised' = [raised EXCEPT ![r] = "none"]
                        /\ stages' = [stages EXCEPT ![r] = <<>>]
                        /\ events' = ev
                        /\ service_cache' = svc
                        /\ in_memory_cache' = c2
    /\ UNCHANGED <<breakerVars, aggVars, stageVars, scoreVars, cacheVars, apiVars>>

\* The provider call of line 159 ends: lines 163-207 build and cache the FAST
\* result, get_recommendations goes on from line 75 with the handler the
\* engine holds now.
ProviderReturns(r, outcome) ==
    /\ rpc[r] = "awaiting"
    /\ provider_outcome' = [provider_outcome EXCEPT ![r] = outcome]
    /\ LET basic == BasicFrom(outcome)
           own == IF req[r].via = "router" THEN instance_breakers[r]
                  ELSE circuit_breakers
       IN  /\ KeepBreaker(r, req[r],
                          IF outcome \in {"exception", "timeout"}
                          THEN RecordFailure(own) ELSE own)
           /\ basic_results' = [basic_results EXCEPT ![r] = basic]
           /\ Return(r, req[r],
                     AfterFast(r, req[r], HandlerNow(r), basic, events),
                     [in_memory_cache EXCEPT ![BasicKeyOf(req[r])] = basic],
                     service_cache)
    /\ UNCHANGED <<progressive_handler, req, invoked, ncalls>>
    /\ UNCHANGED <<breakerVars, aggVars, stageVars, scoreVars, cacheVars, apiVars>>

-----------------------------------------------------------------------------
\* _deduplicate_items and _ensure_diversity (recommendation_engine.py:895-980)

MaxLen == 3
MaxCap == 2

\* the item has no "genre" key
NoGenre == "<no genre>"

\* Items: dictionaries with the keys the two functions read; match_score in
\* tenths. The items that meet on an id, the items without an id and without
\* a genre, which meet on title and author or differ in author, and the items
\* with a genre.
AllItems ==
    [id : {"", "a"}, title : {"X"}, author : {"A", "a", "a ", "b"},
     genre : {NoGenre, "G"}, match_score : {5, 8}]
Items ==
    {i \in AllItems :
        \/ i.id = "a" /\ i.author = "A" /\ i.genre = NoGenre
        \/ i.id = "" /\ i.genre = NoGenre
        \/ i.id = "" /\ i.author \in {"A", "b"} /\ i.genre = "G"}

ItemLists == UNION {[1..n -> Items] : n \in 0..MaxLen}

\* str.lower() and str.strip() on the strings of the items
Lower(str) ==
    CASE str = "A" -> "a"
      [] str = "Dune" -> "dune"
      [] str = "DUNE" -> "dune"
      [] str = "X" -> "x"
      [] str = "G" -> "g"
      [] OTHER -> str
Strip(str) ==
    CASE str = "a " -> "a"
      [] OTHER -> str

\* lines 918-919, 962: .lower().strip()
NormalizedRaw(str) == str
Normalized(str) == Strip(Lower(str))

\* line 926: hashlib.md5(item_key.encode()).hexdigest()
Md5(key) == "md5:" \o key

\* lines 914-926: the key of an item
ItemKey(item) ==
    LET item_key == IF item.id = ""
                    THEN Normalized(item.title) \o "|" \o Normalized(item.author)
                    ELSE item.id
    IN  IF Len(item_key) > 100 THEN Md5(item_key) ELSE item_key

\* line 928: item_key not in unique_keys
SeenKey(key, unique_keys) ==
    \E k \in 1..Len(unique_keys) : unique_keys[k] = key

\* line 933: the duplicate replaces the item kept for its key
ReplacesAlways(item, kept) == TRUE
Replaces(item, kept) == item.match_score > kept.match_score

\* line 935: removed_count += 1
RemovedAfterDuplicateSame(n) == n
RemovedAfterDuplicate(n) == n + 1

\* lines 912-937: the loop from item i on; unique_keys in insertion order,
\* deduplicated the dictionary key -> item
RECURSIVE DedupFrom(_, _, _, _, _)
DedupFrom(its, i, unique_keys, dedup, removed) ==
    IF i > Len(its)
    THEN [out |-> [k \in 1..Len(unique_keys) |-> dedup[unique_keys[k]]],
          removed |-> removed]
    ELSE LET item == its[i]
             key == ItemKey(item)
         IN  IF ~SeenKey(key, unique_keys)
             THEN DedupFrom(its, i + 1, Append(unique_keys, key),
                            (key :> item) @@ dedup, removed)
             ELSE DedupFrom(its, i + 1, unique_keys,
                            IF Replaces(item, dedup[key])
                            THEN (key :> item) @@ dedup
                            ELSE dedup,
                            RemovedAfterDuplicate(removed))

\* lines 905-937
DeduplicateItems(its) ==
    IF its = <<>>
    THEN [out |-> <<>>, removed |-> 0]
    ELSE DedupFrom(its, 1, <<>>, <<>>, 0)

\* line 953: sorted(items, key=match_score, reverse=True); the sort is stable,
\* items of equal score keep their order
RECURSIVE InsertByScoreFirst(_, _)
InsertByScoreFirst(sorted, item) ==
    IF sorted = <<>> THEN <<item>>
    ELSE IF item.match_score >= Head(sorted).match_score
         THEN <<item>> \o sorted
         ELSE <<Head(sorted)>> \o InsertByScoreFirst(Tail(sorted), item)

RECURSIVE InsertByScore(_, _)
InsertByScore(sorted, item) ==
    IF sorted = <<>> THEN <<item>>
    ELSE IF item.match_score > Head(sorted).match_score
         THEN <<item>> \o sorted
         ELSE <<Head(sorted)>> \o InsertByScore(Tail(sorted), item)

RECURSIVE SortedByScore(_)
SortedByScore(its) ==
    IF its = <<>> THEN <<>>
    ELSE InsertByScore(SortedByScore(SubSeq(its, 1, Len(its) - 1)), its[Len(its)])

\* lines 962-963
AuthorOf(item) == Normalized(item.author)
GenreOfAsGiven(item) == Normalized(IF item.genre = NoGenre THEN item.author ELSE item.genre)
GenreOf(item) ==
    Normalized(IF item.genre = NoGenre THEN "unknown" ELSE item.genre)

\* dict.get(key, 0)
CountOfNothing(counts, key) == 0
CountOf(counts, key) == IF key \in DOMAIN counts THEN counts[key] ELSE 0

\* lines 960-978: the loop from item i of the sorted list on
RECURSIVE DiverseFrom(_, _, _, _, _, _)
DiverseFrom(sorted, i, author_counts, genre_counts, diverse, c) ==
    IF i > Len(sorted) THEN diverse
    ELSE LET item == sorted[i]
             author == AuthorOf(item)
             genre == GenreOf(item)
             admit == /\ CountOf(author_counts, author) < c.author
                      /\ CountOf(genre_counts, genre) < c.genre
             diverse1 == IF admit THEN Append(diverse, item) ELSE diverse
             authors1 == IF admit
                         THEN (author :> CountOf(author_counts, author) + 1)
                              @@ author_counts
                         ELSE author_counts
             genres1 == IF admit
                        THEN (genre :> CountOf(genre_counts, genre) + 1)
                             @@ genre_counts
                        ELSE genre_counts
         IN  IF Len(diverse1) >= c.total
             THEN diverse1
             ELSE DiverseFrom(sorted, i + 1, authors1, genres1, diverse1, c)

\* lines 949-980
EnsureDiversity(its, c) ==
    IF its = <<>> THEN <<>>
    ELSE DiverseFrom(SortedByScore(its), 1, <<>>, <<>>, <<>>, c)

\* settings.MAX_ITEMS_PER_AUTHOR, MAX_ITEMS_PER_GENRE, MAX_RECOMMENDATIONS
\* (config.py:53-56) are read from the environment
Caps == [author : 1..MaxCap, genre : 1..MaxCap, total : 0..MaxCap]

NoCaps == [author |-> 0, genre |-> 0, total |-> 0]

\* no list has been passed to either function
AggQuiet ==
    /\ items = <<>>
    /\ op = "none"
    /\ deduplicated = <<>>
    /\ removed_count = 0
    /\ diverse_items = <<>>
    /\ caps = NoCaps

AggInit ==
    /\ items \in ItemLists
    /\ op = "none"
    /\ deduplicated = <<>>
    /\ removed_count = 0
    /\ diverse_items = <<>>
    /\ caps = NoCaps

-----------------------------------------------------------------------------
\* _enhance_with_standard_features and _enhance_with_comprehensive_features
\* (recommendation_engine.py:222-371) and the guarded calls they gather
\* (373-559), called on their own

ShortDeadline == 1

\* the timeout parameters' defaults (lines 227, 302) and the timeouts of the
\* wait_for around each provider call (lines 393, 504, 472, 545)
StandardTimeout == 15
ComprehensiveTimeout == 40
ReviewsCallTimeout == 5
AnalysisCallTimeout == 8
InsightsCallTimeout == 10
ValidationCallTimeout == 10

FastServices == {"perplexity_api"}
StandardServices == {"perplexity_reviews_social"}
ComprehensiveServices ==
    {"perplexity_literary_analysis", "claude_insights", "claude_validation"}
StageServices == FastServices \cup StandardServices \cup ComprehensiveServices

\* what the provider behind a guarded call does: an answer, an empty answer,
\* an exception, or no answer in time
GatewayOutcomes == {"ok", "empty", "exception", "never"}

CallTimeout(service) ==
    CASE service = "perplexity_reviews_social" -> ReviewsCallTimeout
      [] service = "perplexity_literary_analysis" -> AnalysisCallTimeout
      [] service = "claude_insights" -> InsightsCallTimeout
      [] service = "claude_validation" -> ValidationCallTimeout

\* asyncio.wait_for(call, timeout=limit): how long the guarded call takes; a
\* call skipped by its breaker takes no time
ElapsedUnguarded(outcome, limit) ==
    IF outcome = "never" THEN limit + StandardTimeout + ComprehensiveTimeout ELSE 0
Elapsed(outcome, limit) ==
    IF outcome = "never" THEN limit ELSE 0

\* The dictionary a stage works on: the response's fields and the keys the
\* stages add.
StageDict(basic) ==
    [tier |-> basic.tier, recs |-> basic.recs, top_book |-> basic.top_book,
     error |-> basic.error, timeout |-> FALSE,
     reviews |-> "none", insights |-> "none", literary_analysis |-> "none"]

NoStageDict == StageDict(Absent)

\* the FAST results a stage can be given
StageInputs ==
    {StageDict(BasicResponse("api")), StageDict(BasicResponse("mock")),
     StageDict(BasicErrorResponse)}

\* the outcome of one guarded call as the stage sees it: "skipped" when the
\* breaker was open, "cancelled" when the stage's own deadline came first
Seen(open, outcome, limit, deadline) ==
    IF open THEN "skipped"
    ELSE IF Elapsed(outcome, limit) > deadline THEN "cancelled"
    ELSE outcome

\* lines 152-174 of _get_basic_recommendations: where the books come from
BookItems(seen) == IF seen = "ok" THEN "api" ELSE "mock"

\* lines 373-413 _get_reviews_and_social: where the reviews and the social
\* posts come from
ReviewsAndSocial(seen) == IF seen = "ok" THEN "api" ELSE "mock"

\* lines 415-445 _get_basic_insights: computed from the recommendations
BasicInsights == "basic"

\* lines 484-518 _get_literary_analysis_with_circuit_breaker
LiteraryAnalysis(seen) == IF seen = "ok" THEN "api" ELSE "mock"

\* lines 447-482 _get_advanced_insights: the provider's insights as they are,
\* the mock insights otherwise
AdvancedInsights(seen) ==
    CASE seen = "ok" -> "api"
      [] seen = "empty" -> "empty"
      [] OTHER -> "mock"

\* lines 520-559 _cross_validate_recommendations: what the service gave back
\* when it is truthy (line 545 passes the recommendations where
\* claude_service.py:187 takes the search term), or the recommendations given
CrossValidated(seen, recs) == IF seen = "ok" THEN "validated" ELSE recs

\* lines 395-397, 475-477, 511-513, 552-554: the failure is recorded when the
\* call raised or timed out, not when the stage's deadline cancelled it
BreakerAfter(b, seen) ==
    IF seen \in {"exception", "never"} THEN RecordFailure(b) ELSE b

\* asyncio.wait_for(asyncio.gather(...), timeout=timeout) raises TimeoutError
StageTimedOut(seen) == \E sv \in DOMAIN seen : seen[sv] = "cancelled"

\* lines 242-295: the dictionary _enhance_with_standard_features returns
StandardResult(d, seen) ==
    IF StageTimedOut(seen)
    THEN [d EXCEPT !.tier = "standard", !.timeout = TRUE]
    ELSE [d EXCEPT !.tier = "standard",
                   !.reviews = ReviewsAndSocial(seen["perplexity_reviews_social"]),
                   !.insights = BasicInsights]

\* lines 339-346: {**existing_insights, **advanced_insights} when the advanced
\* insights are not empty
MergedInsights(existing, advanced) ==
    IF advanced = "empty" THEN existing
    ELSE IF existing = "none" THEN advanced
    ELSE existing \o "+" \o advanced

\* lines 317-371: the dictionary _enhance_with_comprehensive_features returns
ComprehensiveResult(d, seen) ==
    IF StageTimedOut(seen)
    THEN [d EXCEPT !.tier = "comprehensive", !.timeout = TRUE]
    ELSE [d EXCEPT !.tier = "comprehensive",
                   !.literary_analysis =
                       LiteraryAnalysis(seen["perplexity_literary_analysis"]),
                   !.insights =
                       MergedInsights(@, AdvancedInsights(seen["claude_insights"])),
                   !.recs =
                       IF d.recs = "empty" THEN d.recs
                       ELSE CrossValidated(seen["claude_validation"], d.recs)]

NoGateways == [sv \in StageServices |-> "none"]

StageInit ==
    /\ stage_breakers = [sv \in StageServices |-> [failures |-> 0, open |-> FALSE]]
    /\ stage_pc = "idle"
    /\ stage_timeout = 0
    /\ stage_in = NoStageDict
    /\ stage_out = NoStageDict
    /\ gateways = NoGateways

-----------------------------------------------------------------------------
\* _quick_semantic_scoring (recommendation_engine.py:561-604). Strings are
\* sequences of characters, scores are in tenths.

MaxText == 3

Chars == {"a", "B", " "}
Texts == UNION {[1..n -> Chars] : n \in 0..MaxText}
Summaries == {<<>>, <<"a">>}

\* the match_score a provider can have put in an item; an item can have none
ProviderScores == {-5, 0, 5, 9, 10, 15}
ScoreItems ==
    [title : Texts, summary : Summaries, match_score : ProviderScores]
    \cup [title : Texts, summary : Summaries]

\* str.lower()
LowerText(text) ==
    [i \in 1..Len(text) |-> IF text[i] = "B" THEN "b" ELSE text[i]]

\* str.split(): the words between the blanks, from character i on, word being
\* the word that is open
RECURSIVE WordsFrom(_, _, _)
WordsFrom(text, i, word) ==
    IF i > Len(text) THEN IF word = <<>> THEN {} ELSE {word}
    ELSE IF text[i] = " "
         THEN (IF word = <<>> THEN {} ELSE {word}) \cup WordsFrom(text, i + 1, <<>>)
         ELSE WordsFrom(text, i + 1, Append(word, text[i]))

\* line 576: set(search_term.lower().split())
SearchTerms(term) == WordsFrom(LowerText(term), 1, <<>>)

\* term in text
Contains(text, term) ==
    \E i \in 1..(Len(text) - Len(term) + 1) :
        SubSeq(text, i, i + Len(term) - 1) = term

\* line 581: item.get("match_score", 0.5)
GivenScore(item) ==
    IF "match_score" \in DOMAIN item THEN item.match_score ELSE 5

\* line 589
TermMatches(item, terms) ==
    Cardinality({t \in terms : \/ Contains(LowerText(item.title), t)
                               \/ Contains(LowerText(item.summary), t)})

\* line 596
TitleMatches(item, terms) ==
    Cardinality({t \in terms : Contains(LowerText(item.title), t)})

\* min(1.0, score)
AtMostOne(score) == IF score > 10 THEN 10 ELSE score

\* lines 581-598: the score written to the item
QuickScore(item, term) ==
    LET terms == SearchTerms(term)
        term_matches == TermMatches(item, terms)
        title_matches == TitleMatches(item, terms)
        score1 == IF term_matches > 0
                  THEN AtMostOne(GivenScore(item) + term_matches)
                  ELSE GivenScore(item)
    IN  IF title_matches > 0 THEN AtMostOne(score1 + title_matches) ELSE score1

\* lines 579-604 for a list of one item
QuickSemanticScoring(item, term) ==
    <<[title |-> item.title, summary |-> item.summary,
       match_score |-> QuickScore(item, term)]>>

ScoreQuiet ==
    /\ score_item = [title |-> <<>>, summary |-> <<>>]
    /\ search_term = <<>>
    /\ score_op = "none"
    /\ scored_items = <<>>

ScoreInit ==
    /\ score_item \in ScoreItems
    /\ search_term \in Texts
    /\ score_op = "none"
    /\ scored_items = <<>>

-----------------------------------------------------------------------------
\* RecommendationCache (recommendation_service.py:120-220)

MaxOps == 3
MaxClock == 3

\* ttl_seconds as the constructor can be given it, in seconds
Ttls == {1, 2}

\* the arguments of the calls: one entry, the same entry under a term in other
\* letter case, and entries of another term, another user, another tier
CacheArgs ==
    {<<"u1", "Dune", "fast">>, <<"u1", "dune", "fast">>, <<"u1", "emma", "fast">>,
     <<"u2", "Dune", "fast">>, <<"u1", "Dune", "standard">>}
Payloads == {"d1", "d2"}
None == "None"

\* json.dumps of a list of three strings
JsonDumps(parts) ==
    "[\"" \o parts[1] \o "\", \"" \o parts[2] \o "\", \"" \o parts[3] \o "\"]"

\* lines 138-152 _generate_key
GenerateKeyAsGiven(user_id, term, tier) ==
    Md5(JsonDumps(<<user_id, term, tier>>))
GenerateKey(user_id, term, tier) ==
    Md5(JsonDumps(<<user_id, Lower(term), tier>>))

\* line 172: datetime.now() > entry["expiration"]
ExpiredAtOnce(t, expiration) == t >= expiration
Expired(t, expiration) == t > expiration

\* lines 154-181 get: the dictionary it leaves and the value it returns
CacheGet(c, t, key) ==
    IF key \in DOMAIN c
    THEN IF Expired(t, c[key].expiration)
         THEN [cache |-> [k \in DOMAIN c \ {key} |-> c[k]], returned |-> None]
         ELSE [cache |-> c, returned |-> c[key].data]
    ELSE [cache |-> c, returned |-> None]

\* lines 183-202 set; term and set_at record the call that wrote the entry
CacheSet(c, t, ttl, key, term, data) ==
    [k \in DOMAIN c \cup {key} |->
        IF k = key
        THEN [data |-> data, expiration |-> t + ttl, term |-> term,
              set_at |-> t]
        ELSE c[k]]

\* lines 204-216 invalidate
CacheInvalidate(c, key) == [k \in DOMAIN c \ {key} |-> c[k]]

NoCacheOp ==
    [kind |-> "none", user_id |-> "-", term |-> "-", tier |-> "-",
     data |-> None, returned |-> None]

CacheQuiet ==
    /\ cache = <<>>
    /\ ttl_seconds = 1
    /\ clock = 0
    /\ cache_op = NoCacheOp
    /\ cache_steps = 0

\* lines 127-136 __init__
CacheInit ==
    /\ cache = <<>>
    /\ ttl_seconds \in Ttls
    /\ clock = 0
    /\ cache_op = NoCacheOp
    /\ cache_steps = 0

-----------------------------------------------------------------------------
\* The persistence methods of the engine (recommendation_engine.py:982-1114)
\* and the endpoints of api/routers/recommendations.py

MaxStoreCalls == 4

\* what a method of SupabaseService gives: a result, None (no client, or the
\* operation failed: supabase_service.py:20-30), or an exception
StoreOutcomes == {"row", "None", "exception"}

\* the recommendations passed to get_personalized_recommendations
BaseResults == {"api", "mock"}

\* how many results store_search_results is given
ResultCounts == 0..2

PersistOps ==
    {"store_search_results", "save_book_for_user",
     "get_personalized_recommendations", "save_user_feedback",
     "get_user_saved_books"}

\* lines 982-1013: two calls of the store for each result, until one raises
StoreSearchResults(enabled, n, out) ==
    IF ~enabled THEN [returned |-> "None", calls |-> 0]
    ELSE IF n = 0 THEN [returned |-> "None", calls |-> 0]
    ELSE IF out = "exception" THEN [returned |-> "None", calls |-> 1]
    ELSE [returned |-> "None", calls |-> 2 * n]

\* lines 1015-1033
SaveBookForUser(enabled, out) ==
    IF ~enabled THEN [returned |-> "False", calls |-> 0]
    ELSE IF out = "row" THEN [returned |-> "True", calls |-> 2]
    ELSE [returned |-> "False", calls |-> 1]

\* lines 1035-1078: the base results, or the base results rescored and sorted
GetPersonalizedRecommendations(enabled, base, out) ==
    IF ~enabled THEN [returned |-> base, calls |-> 0]
    ELSE IF out = "row" THEN [returned |-> "personalized", calls |-> 1]
    ELSE [returned |-> base, calls |-> 1]

\* lines 1080-1101
SaveUserFeedbackUnguarded(enabled, out) ==
    IF out = "row" THEN [returned |-> "True", calls |-> 1]
    ELSE [returned |-> "False", calls |-> 1]
SaveUserFeedback(enabled, out) ==
    IF ~enabled THEN [returned |-> "False", calls |-> 0]
    ELSE IF out = "row" THEN [returned |-> "True", calls |-> 1]
    ELSE [returned |-> "False", calls |-> 1]

\* lines 1103-1114
GetUserSavedBooks(enabled, out) ==
    IF ~enabled THEN [returned |-> "empty", calls |-> 0]
    ELSE IF out = "row" THEN [returned |-> "books", calls |-> 1]
    ELSE [returned |-> "empty", calls |-> 1]

Persist(name, enabled, base, n, out) ==
    CASE name = "store_search_results" -> StoreSearchResults(enabled, n, out)
      [] name = "save_book_for_user" -> SaveBookForUser(enabled, out)
      [] name = "get_personalized_recommendations" ->
            GetPersonalizedRecommendations(enabled, base, out)
      [] name = "save_user_feedback" -> SaveUserFeedback(enabled, out)
      [] name = "get_user_saved_books" -> GetUserSavedBooks(enabled, out)

\* lines 30-135: what get_recommendations returns for a call that is not
\* progressive and finds nothing in the caches; no line of it reads
\* settings.SUPABASE_ENABLED or self.supabase
Recommended(enabled, tier, outcome) ==
    AfterFast("r1",
              [tier |-> tier, progressive |-> FALSE, handler |-> FALSE,
               via |-> "engine"],
              "None", BasicFrom(outcome), [r \in Requests |-> <<>>]).value

NoPersistOp ==
    [name |-> "none", returned |-> "none", base |-> "none", calls |-> 0,
     tier |-> "-", outcome |-> "-"]

\* ---- POST /recommendations (api/routers/recommendations.py:82-154)

UserIds == {"u1", "u2"}
SearchTerms2 == {"Dune", "emma"}

\* an item of the engine's dictionary as RecommendationResponse sees it
\* (models/schemas.py:31-37, 52-58, 71-77, 90-95): None, a dictionary that
\* validates, a dictionary that does not
ItemShapes == {"None", "valid", "invalid"}

\* what the awaited get_recommendations does: it returns a dictionary or it
\* raises
EngineAnswers ==
    [kind : {"returns"}, top_book : ItemShapes, top_review : ItemShapes,
     top_social : ItemShapes, msg : {"-"}]
    \cup [kind : {"raises"}, top_book : {"-"}, top_review : {"-"},
          top_social : {"-"}, msg : {"Test error", "boom"}]

\* lines 128-135: RecommendationResponse(...) raises ValidationError when an
\* item does not validate
Validates(answer) ==
    /\ answer.top_book # "invalid"
    /\ answer.top_review # "invalid"
    /\ answer.top_social # "invalid"

\* request is the body of the request, engine what the awaited method did,
\* called_with the arguments of each call the handler made of it
NoHttp ==
    [endpoint |-> "none", status |-> 0, detail |-> <<>>,
     body |-> [top_book |-> "-", top_review |-> "-", top_social |-> "-"],
     request |-> <<>>, engine |-> "-", called_with |-> <<>>]

\* lines 106-154
RecommendationsAnswer(user_id, term, answer) ==
    LET base == [NoHttp EXCEPT !.endpoint = "/recommendations",
                               !.request = <<user_id, term>>,
                               !.engine = answer,
                               !.called_with = << <<user_id, term>> >>]
    IN  IF answer.kind = "raises"
        THEN [base EXCEPT !.status = 500,
                          !.detail = <<"Error processing recommendation: ",
                                       answer.msg>>]
        ELSE IF ~Validates(answer)
        THEN [base EXCEPT !.status = 400,
                          !.detail = <<"Invalid request data: ",
                                       "ValidationError">>]
        ELSE [base EXCEPT !.status = 200,
                          !.body = [top_book |-> answer.top_book,
                                    top_review |-> answer.top_review,
                                    top_social |-> answer.top_social]]

\* ---- POST /save and POST /feedback (lines 50-80)

\* lines 62, 79: except Exception; HTTPException is an Exception
ExceptException(e) == TRUE

\* the try block: the value of success, then the HTTPException of the else
\* branch, which is raised inside the try
SaveAnswer(endpoint, returned) ==
    LET inner == IF returned = "True" THEN "none" ELSE "HTTPException(400)"
        base == [NoHttp EXCEPT !.endpoint = endpoint, !.engine = returned]
    IN  IF inner = "none" THEN [base EXCEPT !.status = 200]
        ELSE IF ExceptException(inner)
        THEN [base EXCEPT !.status = 500, !.detail = <<"str(e)", inner>>]
        ELSE [base EXCEPT !.status = 400, !.detail = <<"Failed to save">>]

ApiQuiet ==
    /\ supabase_enabled = FALSE
    /\ store_calls = 0
    /\ persist_op = NoPersistOp
    /\ http = NoHttp

ApiInit ==
    /\ supabase_enabled \in BOOLEAN
    /\ store_calls = 0
    /\ persist_op = NoPersistOp
    /\ http = NoHttp

BreakerQuiet ==
    /\ state = CLOSED
    /\ failure_count = 0
    /\ last_failure_time = {}
    /\ failure_threshold = MaxThreshold
    /\ fallback_function = "set"
    /\ now = 0
    /\ callpc = [c \in Callers |-> "idle"]
    /\ ret = [c \in Callers |-> "none"]
    /\ event = <<"init", "-", "-">>
    /\ consec = 0

\* the engine side at rest, for the specification of the breaker alone
EngineQuiet ==
    /\ EngineInit
    /\ req = [r \in Requests |->
                [tier |-> "fast", progressive |-> FALSE, handler |-> FALSE,
                 via |-> Via(r)]]

Init ==
    EngineInit /\ BreakerQuiet /\ AggQuiet /\ StageInit /\ ScoreQuiet /\ CacheQuiet
    /\ ApiQuiet

Next ==
    \/ \E r \in Requests, expired \in SUBSET CacheNames, elapsed \in BOOLEAN :
          Call(r, req[r], expired, elapsed)
    \/ \E r \in Requests, outcome \in ProviderOutcomes : ProviderReturns(r, outcome)

Spec == Init /\ [][Next]_vars

\* The engine's breaker around one provider call, as _get_basic_recommendations
\* (recommendation_engine.py:152-170) and the four other guarded calls use it:
\* _check_circuit_breaker, the call when the breaker is not open, and
\* _record_circuit_breaker_failure when the call raises or times out. The
\* client is r1.
GuardedEnter(elapsed) ==
    /\ rpc["r1"] = "idle"
    /\ elapsed => circuit_breakers.open
    /\ circuit_breakers' = CheckedBreaker(circuit_breakers, elapsed)
    /\ IF CircuitOpen(circuit_breakers, elapsed)
       THEN /\ event' = <<"engine_skip", "r1", "-">>
            /\ UNCHANGED rpc
       ELSE /\ event' = <<"engine_through", "r1", "-">>
            /\ rpc' = [rpc EXCEPT !["r1"] = "awaiting"]
    /\ UNCHANGED <<state, failure_count, last_failure_time, failure_threshold,
                   fallback_function, now, callpc, ret, consec>>
    /\ UNCHANGED <<in_memory_cache, instance_breakers, progressive_handler,
                   service_cache, req,
                   basic_results, result, raised, invoked, stages, events, ncalls,
                   provider_outcome>>
    /\ UNCHANGED <<aggVars, stageVars, scoreVars, cacheVars, apiVars>>

GuardedReturn(outcome) ==
    /\ rpc["r1"] = "awaiting"
    /\ rpc' = [rpc EXCEPT !["r1"] = "idle"]
    /\ circuit_breakers' =
          IF outcome \in {"exception", "timeout"}
          THEN RecordFailure(circuit_breakers)
          ELSE circuit_breakers
    /\ event' = <<IF outcome \in {"exception", "timeout"}
                  THEN "engine_failure" ELSE "engine_success", "r1", "-">>
    /\ UNCHANGED <<state, failure_count, last_failure_time, failure_threshold,
                   fallback_function, now, callpc, ret, consec>>
    /\ UNCHANGED <<in_memory_cache, instance_breakers, progressive_handler,
                   service_cache, req,
                   basic_results, result, raised, invoked, stages, events, ncalls,
                   provider_outcome>>
    /\ UNCHANGED <<aggVars, stageVars, scoreVars, cacheVars, apiVars>>

BreakerNext ==
    \/ \E c \in Callers : CallEnter(c)
    \/ \E c \in Callers : CallSucceed(c)
    \/ \E c \in Callers : CallFail(c)
    \/ Reset
    \/ Tick
    \/ \E elapsed \in BOOLEAN : GuardedEnter(elapsed)
    \/ \E outcome \in ProviderOutcomes : GuardedReturn(outcome)

\* a new breaker beside an engine nobody has called yet
BreakerStart ==
    BreakerInit /\ EngineQuiet /\ AggQuiet /\ StageInit /\ ScoreQuiet /\ CacheQuiet
    /\ ApiQuiet

BreakerSpec == BreakerStart /\ [][BreakerNext]_vars

-----------------------------------------------------------------------------
\* One call of _deduplicate_items or of _ensure_diversity on a list

Deduplicate ==
    /\ op = "none"
    /\ op' = "deduplicate"
    /\ LET d == DeduplicateItems(items)
       IN  /\ deduplicated' = d.out
           /\ removed_count' = d.removed
    /\ UNCHANGED <<items, diverse_items, caps>>
    /\ UNCHANGED <<breakerVars, engineVars, stageVars, scoreVars, cacheVars, apiVars>>

Diversify(c) ==
    /\ op = "none"
    /\ op' = "diversify"
    /\ caps' = c
    /\ diverse_items' = EnsureDiversity(items, c)
    /\ UNCHANGED <<items, deduplicated, removed_count>>
    /\ UNCHANGED <<breakerVars, engineVars, stageVars, scoreVars, cacheVars, apiVars>>

AggNext ==
    \/ Deduplicate
    \/ \E c \in Caps : Diversify(c)

AggStart ==
    AggInit /\ BreakerQuiet /\ EngineQuiet /\ StageInit /\ ScoreQuiet /\ CacheQuiet
    /\ ApiQuiet

AggSpec == AggStart /\ [][AggNext]_vars

-----------------------------------------------------------------------------
\* The stage methods, one call at a time

\* the breakers of the services as the checks of a stage's guarded calls leave
\* them; elapsed names the open breakers whose period is over
CheckedBreakers(services, elapsed) ==
    [sv \in StageServices |->
        IF sv \in services
        THEN CheckedBreaker(stage_breakers[sv], sv \in elapsed)
        ELSE stage_breakers[sv]]

\* a stage starts: the copy, the tier written into the metadata it shares with
\* its argument (lines 242-243, 317-318), the breaker checks of its guarded
\* calls, and the gather it waits in
StageStart(stage, services, d, deadline, elapsed) ==
    /\ stage_pc = "idle"
    /\ \A sv \in elapsed : sv \in services /\ stage_breakers[sv].open
    /\ stage_pc' = stage
    /\ stage_timeout' = deadline
    /\ stage_in' = [d EXCEPT !.tier = stage]
    /\ stage_breakers' = CheckedBreakers(services, elapsed)
    /\ gateways' = [sv \in StageServices |->
                      IF sv \in services
                         /\ CircuitOpen(stage_breakers[sv], sv \in elapsed)
                      THEN "skipped" ELSE "none"]
    /\ UNCHANGED stage_out
    /\ UNCHANGED <<breakerVars, engineVars, aggVars, scoreVars, cacheVars, apiVars>>

StandardStart(d, deadline, elapsed) ==
    StageStart("standard", StandardServices, d, deadline, elapsed)

\* the stage is given what the STANDARD stage returned last
ComprehensiveStart(deadline, elapsed) ==
    /\ stage_out.tier = "standard"
    /\ StageStart("comprehensive", ComprehensiveServices, stage_out, deadline,
                  elapsed)

\* the gather ends or the deadline passes: the stage returns
StageJoin(stage, services, outcomes) ==
    /\ stage_pc = stage
    /\ LET seen == [sv \in services |->
                      Seen(gateways[sv] = "skipped", outcomes[sv],
                           CallTimeout(sv), stage_timeout)]
       IN  /\ gateways' = [sv \in StageServices |->
                             IF sv \in services THEN seen[sv] ELSE "none"]
           /\ stage_breakers' =
                 [sv \in StageServices |->
                    IF sv \in services
                    THEN BreakerAfter(stage_breakers[sv], seen[sv])
                    ELSE stage_breakers[sv]]
           /\ stage_out' = IF stage = "standard"
                           THEN StandardResult(stage_in, seen)
                           ELSE ComprehensiveResult(stage_in, seen)
    /\ stage_pc' = "idle"
    /\ UNCHANGED <<stage_timeout, stage_in>>
    /\ UNCHANGED <<breakerVars, engineVars, aggVars, scoreVars, cacheVars, apiVars>>

StandardJoin(outcomes) == StageJoin("standard", StandardServices, outcomes)

ComprehensiveJoin(outcomes) ==
    StageJoin("comprehensive", ComprehensiveServices, outcomes)

StageNext ==
    \/ \E d \in StageInputs, deadline \in {ShortDeadline, StandardTimeout},
          elapsed \in SUBSET StandardServices :
          StandardStart(d, deadline, elapsed)
    \/ \E outcomes \in [StandardServices -> GatewayOutcomes] :
          StandardJoin(outcomes)
    \/ \E deadline \in {ShortDeadline, ComprehensiveTimeout},
          elapsed \in SUBSET ComprehensiveServices :
          ComprehensiveStart(deadline, elapsed)
    \/ \E outcomes \in [ComprehensiveServices -> GatewayOutcomes] :
          ComprehensiveJoin(outcomes)

StageStart0 ==
    StageInit /\ BreakerQuiet /\ EngineQuiet /\ AggQuiet /\ ScoreQuiet /\ CacheQuiet
    /\ ApiQuiet

StageSpec == StageStart0 /\ [][StageNext]_vars

-----------------------------------------------------------------------------
\* The five guarded calls, each called on its own: the provider call of
\* _get_basic_recommendations (lines 152-174), _get_reviews_and_social
\* (373-413), _get_advanced_insights (447-482),
\* _get_literary_analysis_with_circuit_breaker (484-518) and
\* _cross_validate_recommendations (520-559). stage_pc is the service whose
\* provider is awaited, stage_in has the recommendations given, stage_out has
\* what the call contributes in the key the stages put it in.

\* the recommendations a guarded call can be given
GivenRecs == {"api", "mock", "empty"}

Contribution(sv, seen, d) ==
    CASE sv = "perplexity_api" -> [d EXCEPT !.recs = BookItems(seen)]
      [] sv = "perplexity_reviews_social" ->
            [d EXCEPT !.reviews = ReviewsAndSocial(seen)]
      [] sv = "perplexity_literary_analysis" ->
            [d EXCEPT !.literary_analysis = LiteraryAnalysis(seen)]
      [] sv = "claude_insights" -> [d EXCEPT !.insights = AdvancedInsights(seen)]
      [] sv = "claude_validation" ->
            [d EXCEPT !.recs = CrossValidated(seen, d.recs)]

\* the breaker is checked; when it is open the function returns its fallback
\* without awaiting anything
GuardedStart(sv, recs, elapsed) ==
    /\ stage_pc = "idle"
    /\ elapsed => stage_breakers[sv].open
    /\ stage_breakers' =
          [stage_breakers EXCEPT ![sv] = CheckedBreaker(@, elapsed)]
    /\ stage_in' = [NoStageDict EXCEPT !.recs = recs]
    /\ IF CircuitOpen(stage_breakers[sv], elapsed)
       THEN /\ gateways' = [NoGateways EXCEPT ![sv] = "skipped"]
            /\ stage_out' = Contribution(sv, "skipped", stage_in')
            /\ stage_pc' = "idle"
       ELSE /\ gateways' = NoGateways
            /\ stage_out' = NoStageDict
            /\ stage_pc' = sv
    /\ UNCHANGED stage_timeout
    /\ UNCHANGED <<breakerVars, engineVars, aggVars, scoreVars, cacheVars, apiVars>>

\* the provider call ends, by an answer, an exception or its timeout
GuardedEnd(sv, outcome) ==
    /\ stage_pc = sv
    /\ gateways' = [gateways EXCEPT ![sv] = outcome]
    /\ stage_breakers' =
          [stage_breakers EXCEPT ![sv] = BreakerAfter(@, outcome)]
    /\ stage_out' = Contribution(sv, outcome, stage_in)
    /\ stage_pc' = "idle"
    /\ UNCHANGED <<stage_timeout, stage_in>>
    /\ UNCHANGED <<breakerVars, engineVars, aggVars, scoreVars, cacheVars, apiVars>>

GuardNext ==
    \/ \E sv \in StageServices, recs \in GivenRecs, elapsed \in BOOLEAN :
          GuardedStart(sv, recs, elapsed)
    \/ \E sv \in StageServices, outcome \in GatewayOutcomes :
          GuardedEnd(sv, outcome)

GuardStart0 == StageStart0

GuardSpec == GuardStart0 /\ [][GuardNext]_vars

-----------------------------------------------------------------------------
\* One call of _quick_semantic_scoring on a list of one item

Score ==
    /\ score_op = "none"
    /\ score_op' = "scored"
    /\ scored_items' = QuickSemanticScoring(score_item, search_term)
    /\ UNCHANGED <<score_item, search_term>>
    /\ UNCHANGED <<breakerVars, engineVars, aggVars, stageVars, cacheVars, apiVars>>

ScoreNext == Score

ScoreStart ==
    BreakerQuiet /\ EngineQuiet /\ AggQuiet /\ StageInit /\ CacheQuiet /\ ApiQuiet
    /\ ScoreInit

ScoreSpec == ScoreStart /\ [][ScoreNext]_vars

-----------------------------------------------------------------------------
\* Calls on one RecommendationCache while its clock runs

CacheCall(kind, user_id, term, tier, data, returned) ==
    /\ cache_steps < MaxOps
    /\ cache_steps' = cache_steps + 1
    /\ cache_op' = [kind |-> kind, user_id |-> user_id, term |-> term,
                    tier |-> tier, data |-> data, returned |-> returned]
    /\ UNCHANGED <<ttl_seconds, clock>>
    /\ UNCHANGED <<breakerVars, engineVars, aggVars, stageVars, scoreVars, apiVars>>

Get(user_id, term, tier) ==
    LET got == CacheGet(cache, clock, GenerateKey(user_id, term, tier))
    IN  /\ cache' = got.cache
        /\ CacheCall("get", user_id, term, tier, None, got.returned)

Set(user_id, term, tier, data) ==
    /\ cache' = CacheSet(cache, clock, ttl_seconds,
                         GenerateKey(user_id, term, tier), term, data)
    /\ CacheCall("set", user_id, term, tier, data, None)

Invalidate(user_id, term, tier) ==
    /\ cache' = CacheInvalidate(cache, GenerateKey(user_id, term, tier))
    /\ CacheCall("invalidate", user_id, term, tier, None, None)

\* lines 218-220 clear
Clear ==
    /\ cache' = <<>>
    /\ CacheCall("clear", "-", "-", "-", None, None)

ClockTick ==
    /\ clock < MaxClock
    /\ clock' = clock + 1
    /\ UNCHANGED <<cache, ttl_seconds, cache_op, cache_steps>>
    /\ UNCHANGED <<breakerVars, engineVars, aggVars, stageVars, scoreVars, apiVars>>

CacheNext ==
    \/ \E a \in CacheArgs : Get(a[1], a[2], a[3])
    \/ \E a \in CacheArgs, d \in Payloads : Set(a[1], a[2], a[3], d)
    \/ \E a \in CacheArgs : Invalidate(a[1], a[2], a[3])
    \/ Clear
    \/ ClockTick

CacheStart ==
    CacheInit /\ BreakerQuiet /\ EngineQuiet /\ AggQuiet /\ StageInit /\ ScoreQuiet
    /\ ApiQuiet

CacheSpec == CacheStart /\ [][CacheNext]_vars

-----------------------------------------------------------------------------
\* The persistence methods called on the engine made at import, and the
\* endpoints

\* one of the five methods is called
PersistCall(name, base, n, out) ==
    LET res == Persist(name, supabase_enabled, base, n, out)
    IN  /\ store_calls + res.calls <= MaxStoreCalls
        /\ store_calls' = store_calls + res.calls
        /\ persist_op' = [NoPersistOp EXCEPT !.name = name,
                                             !.returned = res.returned,
                                             !.base = base,
                                             !.calls = res.calls,
                                             !.outcome = out]
        /\ UNCHANGED <<supabase_enabled, http>>
        /\ UNCHANGED <<breakerVars, engineVars, aggVars, stageVars, scoreVars,
                       cacheVars>>

\* get_recommendations is called on the engine
GetRecommendations(tier, outcome) ==
    /\ persist_op' = [NoPersistOp EXCEPT
                         !.name = "get_recommendations",
                         !.returned = Recommended(supabase_enabled, tier, outcome),
                         !.tier = tier,
                         !.outcome = outcome]
    /\ UNCHANGED <<supabase_enabled, store_calls, http>>
    /\ UNCHANGED <<breakerVars, engineVars, aggVars, stageVars, scoreVars,
                   cacheVars>>

\* POST /recommendations
PostRecommendations(user_id, term, answer) ==
    /\ http' = RecommendationsAnswer(user_id, term, answer)
    /\ UNCHANGED <<supabase_enabled, store_calls, persist_op>>
    /\ UNCHANGED <<breakerVars, engineVars, aggVars, stageVars, scoreVars,
                   cacheVars>>

\* POST /save (name save_book_for_user) and POST /feedback (name
\* save_user_feedback): the engine's method, then the answer
PostSave(endpoint, name, out) ==
    LET res == Persist(name, supabase_enabled, "mock", 0, out)
    IN  /\ store_calls + res.calls <= MaxStoreCalls
        /\ store_calls' = store_calls + res.calls
        /\ persist_op' = [NoPersistOp EXCEPT !.name = name,
                                             !.returned = res.returned,
                                             !.calls = res.calls,
                                             !.outcome = out]
        /\ http' = SaveAnswer(endpoint, res.returned)
        /\ UNCHANGED supabase_enabled
        /\ UNCHANGED <<breakerVars, engineVars, aggVars, stageVars, scoreVars,
                       cacheVars>>

PersistNext ==
    \/ \E name \in PersistOps, base \in BaseResults, n \in ResultCounts,
          out \in StoreOutcomes : PersistCall(name, base, n, out)
    \/ \E tier \in Tiers, outcome \in ProviderOutcomes :
          GetRecommendations(tier, outcome)

RouterNext ==
    \/ \E user_id \in UserIds, term \in SearchTerms2, answer \in EngineAnswers :
          PostRecommendations(user_id, term, answer)
    \/ \E out \in StoreOutcomes :
          PostSave("/save", "save_book_for_user", out)
    \/ \E out \in StoreOutcomes :
          PostSave("/feedback", "save_user_feedback", out)

ApiStart ==
    BreakerQuiet /\ EngineQuiet /\ AggQuiet /\ StageInit /\ ScoreQuiet
    /\ CacheQuiet /\ ApiInit

PersistStart == ApiStart

PersistSpec == PersistStart /\ [][PersistNext]_vars

RouterStart == ApiStart

RouterSpec == RouterStart /\ [][RouterNext]_vars


-----------------------------------------------------------------------------
\* Steps of CircuitBreaker.call, told from the state before and the event of
\* the step

Failures == {"timeout", "exception"}

\* caller c's provider call ends in a timeout or an exception in this step
FailStep(c) == callpc[c] = "awaiting" /\ event'[1] \in Failures /\ event'[2] = c

\* caller c's provider call succeeds in this step
SuccessStep(c) == callpc[c] = "awaiting" /\ event'[1] = "success" /\ event'[2] = c

\* caller c enters call() in this step
EnterStep(c) == callpc[c] = "idle" /\ event'[1] \in {"short", "through"} /\ event'[2] = c

-----------------------------------------------------------------------------
\* Properties of Spec (the engine and the service)

Done(r) == rpc[r] = "done"

\* the request ran the pipeline itself, it was not answered from a cache
RanPipeline(r) == Done(r) /\ stages[r] # <<>>

\* C1: neither RecommendationEngine.get_recommendations nor
\* RecommendationService.get_recommendations lets an exception reach its
\* caller; every finished request has a result dictionary, whatever the tier
\* and whatever the provider did.
C1_AlwaysAResult ==
    \A r \in Requests :
        /\ raised[r] = "none"
        /\ Done(r) => result[r] # Absent /\ result[r].recs # "none"

\* an exception was raised inside the engine and absorbed for a direct caller,
\* and a request through the service ended on mock books after provider failures
C1_Witness ==
    /\ Done("r1") /\ result["r1"].kind = "error_response"
    /\ result["r1"].error = "TypeError"
    /\ Done("r2") /\ result["r2"].recs = "mock"
    /\ circuit_breakers.failures > 0

C9_FastReturnsFast ==
    \A r \in Requests :
        (Done(r) /\ req[r].tier = "fast") =>
            /\ result[r].kind = "basic"
            /\ result[r].tier = "fast"
            /\ RanPipeline(r) =>
                  /\ stages[r] = <<"FAST">>
                  /\ result[r] = basic_results[r]
            /\ invoked[r] \subseteq {"perplexity_api"}
            /\ \A q \in Requests : \A i \in 1..Len(events[q]) :
                  events[q][i].from # r

\* a progressive fast request with a handler ran the FAST stage on the
\* provider's books and returned
C9_Witness ==
    \E r \in Requests :
        /\ Done(r) /\ req[r].tier = "fast"
        /\ req[r].progressive /\ req[r].handler
        /\ stages[r] = <<"FAST">>
        /\ invoked[r] = {"perplexity_api"}
        /\ result[r].recs = "api"

\* C10 (as stated): a request for the standard or the comprehensive tier runs
\* the STANDARD stage and its result has the FAST result's recommendations and
\* top book.
C10_StandardKeepsFast ==
    \A r \in Requests :
        (RanPipeline(r) /\ req[r].tier \in {"standard", "comprehensive"}) =>
            /\ result[r].recs = basic_results[r].recs
            /\ result[r].top_book = basic_results[r].top_book

-----------------------------------------------------------------------------
\* Properties of BreakerSpec (CircuitBreaker and the engine's breaker)

\* C2 (as stated): no exception ever leaves CircuitBreaker.call.
C2_NeverRaises ==
    \A c \in Callers : ret[c] # "raised"

\* C2 (amended): a failed provider call increments failure_count by one; with a
\* fallback function the caller gets the fallback's value and no call ever
\* raises, without one call() raises to its caller.
C2_FallbackAbsorbs ==
    /\ [](fallback_function = "set" => \A c \in Callers : ret[c] # "raised")
    /\ [][\A c \in Callers :
             FailStep(c) =>
                /\ failure_count' = failure_count + 1
                /\ fallback_function = "set" => ret'[c] = "fallback"
                /\ fallback_function = "None" => ret'[c] = "raised"]_vars

C2_Witness ==
    \E c \in Callers :
        /\ event[1] = "timeout" /\ event[2] = c
        /\ fallback_function = "set"
        /\ ret[c] = "fallback"
        /\ failure_count > 0

C4_OpensOnlyAtThreshold ==
    [][(state = CLOSED /\ state' = OPEN) =>
          /\ failure_count' >= failure_threshold
          /\ \E c \in Callers : FailStep(c)]_vars

C4_Witness ==
    /\ state = OPEN
    /\ event[1] \in Failures /\ event[3] = CLOSED
    /\ failure_count = failure_threshold
    /\ failure_threshold > 1

\* C5: the state goes from OPEN to HALF_OPEN only when a call enters after the
\* recovery timeout has passed since last_failure_time, and that call goes
\* through to the provider; a call that enters earlier leaves the state OPEN.
C5_HalfOpenOnlyAfterRecovery ==
    [][/\ (state = OPEN /\ state' = HALF_OPEN) =>
             /\ RecoveryElapsed
             /\ \E c \in Callers :
                   /\ EnterStep(c) /\ event'[1] = "through"
                   /\ callpc'[c] = "awaiting"
       /\ \A c \in Callers :
             (EnterStep(c) /\ state = OPEN /\ ~RecoveryElapsed) => state' = OPEN
       /\ \A c \in Callers :
             (EnterStep(c) /\ state = OPEN /\ RecoveryElapsed) =>
                state' = HALF_OPEN]_vars

C5_Witness ==
    \E c \in Callers :
        /\ state = HALF_OPEN
        /\ event = <<"through", c, OPEN>>
        /\ callpc[c] = "awaiting"

\* C6: from HALF_OPEN a call that succeeds leaves CLOSED with failure_count 0,
\* a call that fails or times out leaves OPEN with last_failure_time renewed;
\* HALF_OPEN is left for CLOSED only by a success (or reset()) and for OPEN
\* only by a failure.
C6_HalfOpenSuccessors ==
    [][state = HALF_OPEN =>
          /\ \A c \in Callers :
                SuccessStep(c) => state' = CLOSED /\ failure_count' = 0
          /\ \A c \in Callers :
                FailStep(c) => state' = OPEN /\ last_failure_time' = {now}
          /\ state' = CLOSED =>
                \/ \E c \in Callers : SuccessStep(c)
                \/ event'[1] = "reset"
          /\ state' = OPEN => \E c \in Callers : FailStep(c)]_vars

\* the trial call failed late: the breaker went back to OPEN with the time of
\* this failure
C6_Witness ==
    /\ event[1] \in Failures /\ event[3] = HALF_OPEN
    /\ state = OPEN
    /\ last_failure_time = {now}
    /\ now > RecoveryTimeout

\* a success of the engine's guarded provider call
EngineSuccessStep == rpc["r1"] = "awaiting" /\ event'[1] = "engine_success"
EngineFailStep == rpc["r1"] = "awaiting" /\ event'[1] = "engine_failure"

\* C7 (as stated): a call that succeeds clears the failures counted so far, in
\* CircuitBreaker and in the engine's breaker.
C7_SuccessClears ==
    [][/\ \A c \in Callers : SuccessStep(c) => failure_count' = 0
       /\ EngineSuccessStep => circuit_breakers'.failures = 0]_vars

\* C7 (amended): a success clears failure_count only when it finds the breaker
\* HALF_OPEN and leaves it as it is otherwise; a success leaves the engine's
\* breaker as it is; so a CLOSED breaker opens on the failure that brings the
\* count to the threshold, whether or not successes came in between.
C7_SuccessKeepsCount ==
    [][/\ \A c \in Callers :
             SuccessStep(c) =>
                failure_count' = IF state = HALF_OPEN THEN 0 ELSE failure_count
       /\ EngineSuccessStep => circuit_breakers' = circuit_breakers
       /\ \A c \in Callers :
             (FailStep(c) /\ state = CLOSED
                /\ failure_count + 1 >= failure_threshold) => state' = OPEN
       /\ (EngineFailStep /\ circuit_breakers.failures + 1 >= 3) =>
             circuit_breakers'.open]_vars

\* the CircuitBreaker is open although fewer than failure_threshold failures
\* came in a row, and a success has just left the engine's breaker with two
\* failures counted
C7_Witness ==
    /\ state = OPEN
    /\ failure_count >= failure_threshold
    /\ consec < failure_threshold
    /\ event[1] = "engine_success"
    /\ circuit_breakers.failures = 2

-----------------------------------------------------------------------------
\* Properties of Spec: deadlines and progressive events

Escalating(r) == req[r].tier \in {"standard", "comprehensive"}

\* the events request r has sent to the queue of its own task
OwnEvents(r) == SelectSeq(events[r], LAMBDA e : e.from = r)

C12_FastTimeoutAnnotated ==
    \A r \in Requests :
        (Done(r) /\ req[r].tier = "fast" /\ provider_outcome[r] = "timeout") =>
            /\ result[r].recs = "mock"
            /\ stages[r] = <<"FAST">>
            /\ result[r].timeout

\* C14 (as stated): once get_recommendations has returned for a streaming
\* request, the queue of its stream holds exactly one event with final = true,
\* and that event is the last.
C14_OneFinalEvent ==
    \A r \in Requests :
        (Done(r) /\ req[r] = StreamingCall(req[r].tier)) =>
            /\ StreamEnds(events[r])
            /\ \A i \in 1..Len(events[r]) :
                  events[r][i].final <=> i = Len(events[r])

\* C15 (as stated): a progressive comprehensive request whose provider
\* answered sends the FAST result (not final), the STANDARD result (not
\* final) and the COMPREHENSIVE result (final), in this order.
C15_ThreeEventsInOrder ==
    \A r \in Requests :
        (/\ RanPipeline(r) /\ req[r].tier = "comprehensive"
         /\ req[r].progressive /\ req[r].handler
         /\ provider_outcome[r] = "ok") =>
            LET mine == OwnEvents(r)
            IN  /\ Len(mine) = 3
                /\ mine[1].data.tier = "fast" /\ ~mine[1].final
                /\ mine[2].data.tier = "standard" /\ ~mine[2].final
                /\ mine[3].data.tier = "comprehensive" /\ mine[3].final

\* C16 (as stated): when the escalation of a progressive request fails after
\* the FAST result exists, the request sends exactly one event with
\* final = true, and that event has the recommendations and the top book
\* computed so far and an error descriptor.
C16_TerminalEventKeepsPartial ==
    \A r \in Requests :
        (/\ RanPipeline(r) /\ Escalating(r)
         /\ req[r].progressive /\ req[r].handler
         /\ result[r].error # "none") =>
            LET mine == OwnEvents(r)
                finals == {i \in 1..Len(mine) : mine[i].final}
            IN  /\ Cardinality(finals) = 1
                /\ \A i \in finals :
                      /\ mine[i].data.error # "none"
                      /\ mine[i].data.recs = basic_results[r].recs
                      /\ mine[i].data.top_book = basic_results[r].top_book

-----------------------------------------------------------------------------
\* Properties of StageSpec

\* the stage named has returned and was called with deadline
Returned(stage, deadline) ==
    /\ stage_pc = "idle"
    /\ stage_out.tier = stage
    /\ stage_timeout = deadline

\* C13: called with its deadline, a stage does not time out when a provider
\* never answers; that provider's contribution is its fallback and the other
\* contributions are in the stage's result.
C13_SlowProviderOnlyDegradesItself ==
    /\ Returned("standard", StandardTimeout) =>
          /\ stage_out.timeout = FALSE
          /\ stage_out.insights = BasicInsights
          /\ stage_out.recs = stage_in.recs
          /\ stage_out.top_book = stage_in.top_book
          /\ gateways["perplexity_reviews_social"] = "never" =>
                stage_out.reviews = "mock"
          /\ gateways["perplexity_reviews_social"] = "ok" =>
                stage_out.reviews = "api"
    /\ Returned("comprehensive", ComprehensiveTimeout) =>
          /\ stage_out.timeout = stage_in.timeout
          /\ stage_out.top_book = stage_in.top_book
          /\ stage_out.reviews = stage_in.reviews
          /\ gateways["perplexity_literary_analysis"] = "never" =>
                stage_out.literary_analysis = "mock"
          /\ gateways["perplexity_literary_analysis"] = "ok" =>
                stage_out.literary_analysis = "api"
          /\ gateways["claude_insights"] = "never" =>
                stage_out.insights = MergedInsights(stage_in.insights, "mock")
          /\ gateways["claude_insights"] = "ok" =>
                stage_out.insights = MergedInsights(stage_in.insights, "api")
          /\ gateways["claude_validation"] = "never" =>
                stage_out.recs = stage_in.recs
          /\ (gateways["claude_validation"] = "ok" /\ stage_in.recs # "empty") =>
                stage_out.recs = "validated"

\* the analysis provider never answered; the insights and the validated
\* recommendations of the other two providers are in the result
C13_Witness ==
    /\ Returned("comprehensive", ComprehensiveTimeout)
    /\ gateways["perplexity_literary_analysis"] = "never"
    /\ gateways["claude_insights"] = "ok"
    /\ gateways["claude_validation"] = "ok"
    /\ stage_out.literary_analysis = "mock"
    /\ stage_out.insights = "basic+api"
    /\ stage_out.recs = "validated"
    /\ ~stage_out.timeout

-----------------------------------------------------------------------------
\* Properties of AggSpec

\* the canonical key: the id when it is not empty, else
\* lowercase(title)|lowercase(author)
CanonicalKey(item) ==
    IF item.id # "" THEN item.id
    ELSE Lower(item.title) \o "|" \o Lower(item.author)

\* C17: the list _deduplicate_items returns has no two items with the same
\* canonical key.
C17_NoTwoWithSameKey ==
    op = "deduplicate" =>
        \A i, j \in 1..Len(deduplicated) :
            i # j => CanonicalKey(deduplicated[i]) # CanonicalKey(deduplicated[j])

\* three items without id, two of them with the same canonical key under
\* authors written differently
C17_Witness ==
    /\ op = "deduplicate"
    /\ Len(items) = 3
    /\ \E i, j \in 1..Len(items) :
          /\ items[i].id = "" /\ items[j].id = ""
          /\ items[i].author = "A" /\ items[j].author = "a"
          /\ items[i].genre = items[j].genre
    /\ Len(deduplicated) < 3

\* C18: the count _deduplicate_items returns is len(input) - len(output).
C18_RemovedCountExact ==
    op = "deduplicate" => removed_count = Len(items) - Len(deduplicated)

\* one key three times: two removed
C18_Witness ==
    /\ op = "deduplicate"
    /\ Len(items) = 3
    /\ Len(deduplicated) = 1
    /\ removed_count = 2

\* C19: the item kept for a canonical key has the highest match_score of the
\* input items with that key.
C19_KeepsHighestScore ==
    op = "deduplicate" =>
        \A k \in 1..Len(deduplicated) : \A i \in 1..Len(items) :
            CanonicalKey(items[i]) = CanonicalKey(deduplicated[k]) =>
                items[i].match_score <= deduplicated[k].match_score

\* the scenario: two items of id "a" with scores 0.5 and 0.8 give one item of
\* score 0.8 and a count of 1
C19_Witness ==
    /\ op = "deduplicate"
    /\ Len(items) = 2
    /\ items[1].id = "a" /\ items[1].match_score = 5
    /\ items[2].id = "a" /\ items[2].match_score = 8
    /\ Len(deduplicated) = 1
    /\ deduplicated[1].match_score = 8
    /\ removed_count = 1

\* C20 (as stated): the list _ensure_diversity returns has at most
\* MAX_ITEMS_PER_AUTHOR items of one author, at most MAX_ITEMS_PER_GENRE items
\* of one genre and at most MAX_RECOMMENDATIONS items.
C20_WithinCaps ==
    op = "diversify" =>
        /\ Len(diverse_items) <= caps.total
        /\ \A k \in 1..Len(diverse_items) :
              /\ Cardinality({i \in 1..Len(diverse_items) :
                    diverse_items[i].author = diverse_items[k].author})
                 <= caps.author
              /\ Cardinality({i \in 1..Len(diverse_items) :
                    diverse_items[i].genre = diverse_items[k].genre})
                 <= caps.genre

\* how often an item occurs in a list
Occurrences(its, item) == Cardinality({i \in 1..Len(its) : its[i] = item})

\* more than caps.author items, all of one author
OneAuthorOverCap ==
    /\ op = "diversify"
    /\ Len(items) > caps.author
    /\ \A i \in 1..Len(items) : items[i].author = items[1].author

\* the list returned is caps.author of the items, and no item left out has a
\* higher match_score than one returned
ExactlyTheBestOfTheAuthor ==
    /\ Len(diverse_items) = caps.author
    /\ \A k \in 1..Len(diverse_items) :
          Occurrences(diverse_items, diverse_items[k])
              <= Occurrences(items, diverse_items[k])
    /\ \A i \in 1..Len(items), k \in 1..Len(diverse_items) :
          Occurrences(items, items[i]) > Occurrences(diverse_items, items[i])
              => items[i].match_score <= diverse_items[k].match_score

\* C21 (as stated): given more than MAX_ITEMS_PER_AUTHOR items that all have
\* the same author, _ensure_diversity returns exactly the
\* MAX_ITEMS_PER_AUTHOR highest-scoring of them.
C21_ExactlyPerAuthor == OneAuthorOverCap => ExactlyTheBestOfTheAuthor

\* C21 (amended): the same, when MAX_ITEMS_PER_GENRE and MAX_RECOMMENDATIONS
\* are not below MAX_ITEMS_PER_AUTHOR.
C21_ExactlyPerAuthorWhenItIsTheLeastCap ==
    (OneAuthorOverCap /\ caps.genre >= caps.author /\ caps.total >= caps.author)
        => ExactlyTheBestOfTheAuthor

\* three items of author "A", the best of them last, and a cap of two per
\* author and per genre
C21_Witness ==
    /\ OneAuthorOverCap
    /\ caps = [author |-> 2, genre |-> 2, total |-> 2]
    /\ Len(items) = 3
    /\ items[1].match_score = 5 /\ items[2].match_score = 5
    /\ items[3].match_score = 8
    /\ Len(diverse_items) = 2
    /\ diverse_items[1] = items[3]

-----------------------------------------------------------------------------
\* Properties of ScoreSpec

\* the search-term tokens the title matches
TokensInTitle(title) ==
    {t \in SearchTerms(search_term) : Contains(LowerText(title), t)}

\* title matches the tokens the item's title matches and one more at least
MatchesOneMore(title) ==
    /\ TokensInTitle(score_item.title) \subseteq TokensInTitle(title)
    /\ TokensInTitle(title) # TokensInTitle(score_item.title)

WithTitle(item, title) ==
    [f \in DOMAIN item |-> IF f = "title" THEN title ELSE item[f]]

\* C22 (as stated): with a title that matches one more token of the search
\* term, all else equal, the item's score is not lower.
C22_Monotonic ==
    score_op = "scored" =>
        \A title \in Texts :
            MatchesOneMore(title) =>
                QuickScore(WithTitle(score_item, title), search_term)
                    >= scored_items[1].match_score

\* C23 (as stated): the score written to the item is in [0, 1].
C23_ScoreInUnitInterval ==
    score_op = "scored" =>
        /\ scored_items[1].match_score >= 0
        /\ scored_items[1].match_score <= 10

-----------------------------------------------------------------------------
\* Properties of CacheSpec

\* the step is a call of the kind named
CacheStep(kind) == cache_steps' # cache_steps /\ cache_op'.kind = kind

\* the arguments of the call the step makes
CalledWith == <<cache_op'.user_id, cache_op'.term, cache_op'.tier>>

KeyOf(a) == GenerateKey(a[1], a[2], a[3])

\* C25: a get up to ttl_seconds after the set of the entry returns the data and
\* keeps the entry; a later get returns None and leaves no entry, and only a
\* set puts an entry in.
C25_ReadableUntilExpiry ==
    [][/\ CacheStep("get") =>
            LET key == KeyOf(CalledWith)
            IN  IF key \in DOMAIN cache
                   /\ clock <= cache[key].set_at + ttl_seconds
                THEN /\ cache_op'.returned = cache[key].data
                     /\ cache' = cache
                ELSE /\ cache_op'.returned = None
                     /\ key \notin DOMAIN cache'
       /\ ~CacheStep("set") => DOMAIN cache' \subseteq DOMAIN cache]_vars

\* a get exactly ttl_seconds after the set returns the data
C25_Witness ==
    /\ cache_op.kind = "get"
    /\ cache_op.returned \in Payloads
    /\ LET key == GenerateKey(cache_op.user_id, cache_op.term, cache_op.tier)
       IN  /\ key \in DOMAIN cache
           /\ clock = cache[key].set_at + ttl_seconds

\* the terms are equal when letter case is ignored
EqualIgnoringCase(t1, t2) ==
    t1 = t2 \/ {t1, t2} \subseteq {"Dune", "dune", "DUNE"}

SameEntry(a, b) ==
    a[1] = b[1] /\ a[3] = b[3] /\ EqualIgnoringCase(a[2], b[2])

\* what the cache holds for the arguments
Held(c, a) == IF KeyOf(a) \in DOMAIN c THEN c[KeyOf(a)].data ELSE None

\* C26: set, get and invalidate address one entry exactly when the user and
\* the tier are equal and the terms are equal but for letter case: after a set
\* the data is held for these arguments and no others, after an invalidate
\* nothing is held for them, a get returns what is held for them, and the
\* entries of other arguments are as they were.
C26_SameEntryIgnoringCase ==
    [][/\ CacheStep("set") =>
            \A b \in CacheArgs :
                Held(cache', b) = IF SameEntry(CalledWith, b)
                                  THEN cache_op'.data ELSE Held(cache, b)
       /\ CacheStep("invalidate") =>
            \A b \in CacheArgs :
                Held(cache', b) = IF SameEntry(CalledWith, b)
                                  THEN None ELSE Held(cache, b)
       /\ CacheStep("get") =>
            /\ \A b \in CacheArgs :
                  SameEntry(CalledWith, b) =>
                      cache_op'.returned \in {None, Held(cache, b)}
            /\ \A b \in CacheArgs :
                  ~SameEntry(CalledWith, b) => Held(cache', b) = Held(cache, b)
            /\ (\E b \in CacheArgs :
                    /\ SameEntry(CalledWith, b)
                    /\ KeyOf(b) \in DOMAIN cache
                    /\ clock <= cache[KeyOf(b)].expiration)
                  => cache_op'.returned \in Payloads]_vars

\* a get returns the data set under the term in other letter case, beside the
\* entries of another user and another tier
C26_Witness ==
    /\ cache_op.kind = "get"
    /\ cache_op.returned \in Payloads
    /\ LET key == GenerateKey(cache_op.user_id, cache_op.term, cache_op.tier)
       IN  /\ key \in DOMAIN cache
           /\ cache[key].term # cache_op.term
           /\ cache[key].data = cache_op.returned
    /\ Cardinality(DOMAIN cache) = 2

-----------------------------------------------------------------------------
\* The caches and the engine's breakers across requests

\* request r takes the step: its call starts or its provider call comes back
Acts(r) ==
    \/ ncalls'[r] # ncalls[r]
    \/ rpc[r] = "awaiting" /\ rpc'[r] # "awaiting"

\* the step stores a value under key k of the decorator's cache
Stored(k) ==
    /\ in_memory_cache'[k] # Absent
    /\ in_memory_cache'[k] # in_memory_cache[k]

\* the step stores a value in the service's RecommendationCache
ServiceStored(tier) ==
    /\ service_cache'[tier] # Absent
    /\ service_cache'[tier] # service_cache[tier]

\* C24 (as stated): neither the cached decorator nor the service's
\* RecommendationCache stores the result of a request made with
\* progressive = True, nor the FAST result of a request for a higher tier.
C24_OnlyCompletedNonProgressiveCached ==
    [][\A r \in Requests :
          Acts(r) =>
             /\ \A k \in CacheKeys :
                   Stored(k) =>
                      /\ ~req[r].progressive
                      /\ k.prefix = "recommendations_basic" =>
                            req[r].tier = "fast"
             /\ \A tier \in Tiers : ServiceStored(tier) => ~req[r].progressive
      ]_vars

\* C27 (as stated): the breaker state the engine keeps for a provider lasts
\* from one request to the next: a request finds the failures and the open
\* flag the request before it left, and the count goes back to zero only
\* when an open breaker's period has passed.
C27_BreakersOutliveRequests ==
    [][/\ \A r \in Requests :
             /\ instance_breakers'[r].failures >= instance_breakers[r].failures
             /\ instance_breakers[r].open => instance_breakers'[r].open
       /\ \/ circuit_breakers'.failures >= circuit_breakers.failures
          \/ circuit_breakers.open /\ ~circuit_breakers'.open
      ]_vars

\* C29 (as stated): when the search provider gives nothing, the request that
\* ran the pipeline returns an empty recommendation list and a metadata.error.
C29_NothingConfiguredIsAnError ==
    \A r \in Requests :
        (RanPipeline(r) /\ provider_outcome[r] = "empty") =>
            /\ result[r].recs = "empty"
            /\ result[r].error # "none"

\* C30 (as stated): the result of a request for the comprehensive tier has a
\* literary analysis.
C30_ComprehensiveHasAnalysis ==
    \A r \in Requests :
        (RanPipeline(r) /\ req[r].tier = "comprehensive") =>
            result[r].literary_analysis # "none"

-----------------------------------------------------------------------------
\* Properties of GuardSpec

\* the fallback of a guarded call in the dictionary d it was given
Fallback(sv, d) ==
    CASE sv = "perplexity_api" -> [d EXCEPT !.recs = "mock"]
      [] sv = "perplexity_reviews_social" -> [d EXCEPT !.reviews = "mock"]
      [] sv = "perplexity_literary_analysis" ->
            [d EXCEPT !.literary_analysis = "mock"]
      [] sv = "claude_insights" -> [d EXCEPT !.insights = "mock"]
      [] sv = "claude_validation" -> d

\* C28: a guarded call made while the service's breaker is open and its
\* period has not passed does not call the provider: it returns its fallback
\* in the same step and leaves the breaker as it was. This is so for each of
\* the five services.
C28_OpenBreakerSkipsTheCall ==
    [][\A sv \in StageServices :
          (/\ stage_pc = "idle"
           /\ gateways'[sv] # "none" \/ stage_pc' = sv
           /\ stage_breakers[sv].open
           /\ stage_breakers'[sv].open) =>
             /\ stage_pc' = "idle"
             /\ gateways'[sv] = "skipped"
             /\ stage_out' = Fallback(sv, stage_in')
             /\ stage_breakers' = stage_breakers
      ]_vars

\* the call of service sv was skipped, its breaker is open and the function
\* returned its fallback
SkippedOpen(sv) ==
    /\ stage_pc = "idle"
    /\ gateways[sv] = "skipped"
    /\ stage_breakers[sv].open
    /\ stage_out = Fallback(sv, stage_in)

\* the five breakers are open and the validation, called last, gave back the
\* recommendations it was given
C28_Witness ==
    /\ \A sv \in StageServices : stage_breakers[sv].open
    /\ SkippedOpen("claude_validation")
    /\ stage_in.recs = "api"

-----------------------------------------------------------------------------
\* Properties of PersistSpec

\* what a persistence method returns when it does nothing
EmptyAnswer(name, base) ==
    CASE name = "store_search_results" -> "None"
      [] name = "save_book_for_user" -> "False"
      [] name = "get_personalized_recommendations" -> base
      [] name = "save_user_feedback" -> "False"
      [] name = "get_user_saved_books" -> "empty"

\* C31: with settings.SUPABASE_ENABLED false the store receives no call, each
\* of the five methods returns None, False, the empty list or the base results
\* it was given, and get_recommendations returns what it returns with the
\* setting true.
C31_DisabledIsANoOp ==
    /\ ~supabase_enabled =>
          /\ store_calls = 0
          /\ persist_op.name \in PersistOps =>
                /\ persist_op.calls = 0
                /\ persist_op.returned =
                      EmptyAnswer(persist_op.name, persist_op.base)
    /\ persist_op.name = "get_recommendations" =>
          /\ persist_op.calls = 0
          /\ persist_op.returned =
                Recommended(TRUE, persist_op.tier, persist_op.outcome)
          /\ persist_op.returned =
                Recommended(FALSE, persist_op.tier, persist_op.outcome)

\* feedback was to be saved and the store would have taken it, but the
\* setting is false
C31_Witness ==
    /\ ~supabase_enabled
    /\ persist_op.name = "save_user_feedback"
    /\ persist_op.outcome = "row"
    /\ persist_op.returned = "False"
    /\ store_calls = 0

-----------------------------------------------------------------------------
\* Properties of RouterSpec

\* C32 (as stated): POST /recommendations answers 500 with the exception's
\* message in the detail when get_recommendations raises; when it returns,
\* it was called once with the request's user_id and search_term and the
\* answer has the engine's top_book, top_review and top_social.
C32_RecommendationsEndpoint ==
    http.endpoint = "/recommendations" =>
        /\ http.called_with = <<http.request>>
        /\ http.engine.kind = "raises" =>
              /\ http.status = 500
              /\ \E i \in DOMAIN http.detail : http.detail[i] = http.engine.msg
        /\ http.engine.kind = "returns" =>
              /\ http.status = 200
              /\ http.body.top_book = http.engine.top_book
              /\ http.body.top_review = http.engine.top_review
              /\ http.body.top_social = http.engine.top_social

\* C39 (as stated): POST /save and POST /feedback answer 400 when the engine's
\* method returns False; they answer 500 only when it raises, which
\* save_book_for_user and save_user_feedback never do.
C39_FalseIs400 ==
    http.endpoint \in {"/save", "/feedback"} =>
        /\ http.engine = "False" => http.status = 400
        /\ http.status # 500

-----------------------------------------------------------------------------
\* Further properties of Spec

\* C34 (as stated): for a tier that is none of fast, standard and
\* comprehensive the request returns the recommendations of the FAST stage,
\* not an error response.
C34_UnknownTierGetsStandard ==
    \A r \in Requests :
        (RanPipeline(r) /\ req[r].tier \notin {"fast", "standard", "comprehensive"}) =>
            /\ result[r].kind # "error_response"
            /\ result[r].error = "none"
            /\ result[r].recs = basic_results[r].recs

-----------------------------------------------------------------------------
\* Further properties of AggSpec

\* the place of item i of the list in the order by descending score with ties
\* in input order
StableRank(its, i) ==
    1 + Cardinality({j \in 1..Len(its) :
                        \/ its[j].match_score > its[i].match_score
                        \/ its[j].match_score = its[i].match_score /\ j < i})

\* the list in that order
StableSorted(its) ==
    [k \in 1..Len(its) |->
        its[CHOOSE i \in 1..Len(its) : StableRank(its, i) = k]]

\* the items of sub are items of seq, in the order of seq
RECURSIVE IsSubSeq(_, _)
IsSubSeq(sub, seq) ==
    IF sub = <<>> THEN TRUE
    ELSE IF seq = <<>> THEN FALSE
    ELSE IF Head(sub) = Head(seq) THEN IsSubSeq(Tail(sub), Tail(seq))
    ELSE IsSubSeq(sub, Tail(seq))

\* C33: the list _ensure_diversity returns has its items in the order of the
\* scan, which is descending score with items of equal score in input order,
\* and it is the same list for the same input and caps.
C33_DeterministicInScanOrder ==
    op = "diversify" =>
        /\ IsSubSeq(diverse_items, StableSorted(items))
        /\ diverse_items = EnsureDiversity(items, caps)

\* two different items of equal score are returned in input order, ahead of
\* the item of lower score that came first in the input
C33_Witness ==
    /\ op = "diversify"
    /\ Len(items) = 3
    /\ items[2].match_score = items[3].match_score
    /\ items[2] # items[3]
    /\ items[1].match_score < items[2].match_score
    /\ diverse_items = <<items[2], items[3]>>

\* the items of the list that have no "genre" key
WithoutGenre(its) == {k \in 1..Len(its) : its[k].genre = NoGenre}

\* C40: the items without a genre are counted under the one genre "unknown":
\* the list returned has at most MAX_ITEMS_PER_GENRE of them, whatever their
\* authors and whatever MAX_RECOMMENDATIONS.
C40_NoGenreIsOneBucket ==
    op = "diversify" =>
        Cardinality(WithoutGenre(diverse_items)) <= caps.genre

\* two items without a genre, of two authors: one is returned although the
\* author cap and the total would have let both in
C40_Witness ==
    /\ op = "diversify"
    /\ caps = [author |-> 2, genre |-> 1, total |-> 2]
    /\ Len(items) = 2
    /\ WithoutGenre(items) = {1, 2}
    /\ AuthorOf(items[1]) # AuthorOf(items[2])
    /\ Len(diverse_items) = 1

-----------------------------------------------------------------------------
\* Further properties of BreakerSpec

\* C35: whatever the interleaving of the calls on the breaker, a CLOSED
\* breaker has fewer failures than its threshold, and an OPEN or HALF_OPEN
\* breaker has at least as many and has the time of its last failure, from
\* which the recovery timeout is counted.
C35_StateAgreesWithCount ==
    /\ state = CLOSED => failure_count < failure_threshold
    /\ state \in {OPEN, HALF_OPEN} =>
          /\ failure_count >= failure_threshold
          /\ last_failure_time # {}

\* a call that went through a HALF_OPEN breaker fails after the other call's
\* success has closed the breaker: it finishes in CLOSED with one failure
C35_Witness ==
    /\ failure_threshold > 1
    /\ event[1] \in {"timeout", "exception"}
    /\ event[3] = CLOSED
    /\ state = CLOSED
    /\ failure_count = 1
    /\ \E c \in Callers : callpc[c] = "idle" /\ ret[c] = "result"
    /\ now > RecoveryTimeout

-----------------------------------------------------------------------------
\* Further properties of StageSpec

\* C36 (as stated): a stage leaves the dictionary it is given as it was: the
\* STANDARD stage leaves a FAST result with its tier fast, the COMPREHENSIVE
\* stage leaves the STANDARD result it is given as the STANDARD stage returned
\* it, so that the FAST result an in-memory cache holds still says fast.
C36_StagesLeaveTheirArgument ==
    [][/\ (stage_pc = "idle" /\ stage_pc' = "standard") =>
             stage_in' \in StageInputs
       /\ (stage_pc = "idle" /\ stage_pc' = "comprehensive") =>
             stage_in' = stage_out]_vars

-----------------------------------------------------------------------------
\* Properties of Spec: two requests on one engine

\* the two requests run on the engine made at import
SameEngine == \A r \in Requests : EngineOf(req[r]) = "singleton"

\* C37 (as stated): when two requests run on the same engine, every
\* progressive event is on the queue of the request that sent it, and a
\* request with a handler whose pipeline went past the FAST stage has its own
\* events, whatever the other request did meanwhile.
C37_EventsReachTheirOwnHandler ==
    SameEngine =>
        \A r \in Requests :
            /\ \A i \in 1..Len(events[r]) : events[r][i].from = r
            /\ (/\ RanPipeline(r) /\ Escalating(r)
                /\ req[r].progressive /\ req[r].handler) =>
                   OwnEvents(r) # <<>>

\* C38 (as stated): no cache holds a response with an error descriptor,
\* neither the in-memory cache of the cached decorator nor the service's
\* RecommendationCache, so a finished request that has such a response got it
\* from a run of the pipeline, not from a cache.
C38_ErrorsAreNotCached ==
    /\ \A k \in CacheKeys : in_memory_cache[k].error = "none"
    /\ \A tier \in Tiers : service_cache[tier].error = "none"
    /\ \A r \in Requests :
          (Done(r) /\ result[r].error # "none") => RanPipeline(r)

====
